---- MODULE Spec2Model ----
(***************************************************************************)
(* A model of kira's realtime pipeline: the instance state machine         *)
(* (instance/mod.rs), the bounded instance collection                      *)
(* (manager/backend/instances.rs), playable cooldowns (arrangement/mod.rs),*)
(* cached values (value.rs) and the unloader queue between the audio side  *)
(* and the control side (manager/mod.rs, manager/backend/streams.rs).      *)
(*                                                                         *)
(* Time and positions are exact integers: one unit is 1/Dt of a frame's    *)
(* dt, so a sound of n samples lasts n * Dt units.  Floating point         *)
(* rounding is not modelled.                                               *)
(***************************************************************************)
EXTENDS Integers, Sequences, FiniteSets, TLC

VARIABLES
    instances,      \* Instances.instances: insertion-ordered map id -> Instance
    playables,      \* the loaded playables: duration, cooldown, cooldown_timer
    parameters,     \* the parameter table read by CachedValue::update
    nextInstanceId, \* NEXT_INSTANCE_INDEX
    hung,           \* the audio thread is inside an update that never returns
    streams,        \* Streams.streams: insertion-ordered ids of the registered streams
    nextStreamId,   \* the audio stream id counter
    unloader,       \* resources in flight from the audio side to the control side
    freed,          \* resources dropped by the control side (free_unused_resources)
    audioDropped,   \* resources dropped on the audio thread
    hAge,           \* history: process calls survived by each instance id since its Play
    hSince,         \* history: per playable, frames since its last accepted Play
    hPending,       \* history: ids with a command (set_volume, stop) not yet followed by an update
    hMixed,         \* history: ids of the instances that added a sample in the last process call
    hEvicted,       \* history: the instances the last step evicted to make room
    effect_slots,   \* Track.effect_slots: the effect ids of one track, in map order
    nextEffectId,   \* the effect id counter
    hApplied,       \* history: the effect ids in the order the last Track::process applied them
    groups,         \* Groups: the group table, group id -> the ids of its parent groups
    nextGroupId,    \* NEXT_GROUP_INDEX
    playable_groups,\* per playable, the group set of its settings
    hCommand,       \* history: kind and group id of the group command the last step ran, if any
    metronome,      \* one Metronome: tempo, interval_events_to_emit, ticking, time, previous_time
    events,         \* the interval events in the metronome's outbound event channel
    hTicks,         \* history: updates of the metronome while ticking
    sequence,       \* one SequenceInstance: sequence, metronome, state, position, wait_timer, muted
    nextSequenceInstanceId, \* the instance id counter the sequence's embedded ids are minted from
    output_command_queue,   \* the output commands the last SequenceInstance::update pushed
    custom_events,  \* the custom events in the sequence's outbound event channel
    hStarted,       \* history: SequenceInstance::start was called
    hUpdates,       \* history: update calls of the sequence since its start
    hControlled,    \* history: the sequence was muted, unmuted, paused, resumed or stopped
    hPushed,        \* history: every output command the sequence pushed, in order
    hTrace,         \* history: the step indices the last update call started, in order
    hDispatched,    \* history: zero-duration steps the last update call dispatched
    num_commands,   \* AudioManagerSettings.num_commands: capacity of the command channel
    command_queue,  \* the commands in the channel from the control side to the audio side
    draining,       \* commands the audio side may still receive in the drain it is in
    nextCommandId,  \* how many pushes the control side has made
    hSent,          \* history: the commands the channel accepted, in push order
    hReceived,      \* history: the commands the audio side received, in order
    hResult,        \* history: the result of the last push
    twin,           \* a second engine, constructed as the first and fed the same commands
    manager,        \* the AudioManager: constructing, alive, failed, blocked (in drop) or dropped
    wrapper,        \* the thread AudioManager::new spawns: none, setup, polling or ended
    device_stream,  \* the cpal stream the wrapper thread holds: none, playing or dropped
    quit_signal,    \* the messages in the quit signal channel
    quit_receiver,  \* whether quit_signal_receiver still exists
    setup_result,   \* the messages in the setup result channel
    hFinished,      \* history: ids of the instances an update of the last process call made Stopped
    hLast,          \* history: the command or update call the last step ran and what it found
    metronome_ids   \* Metronomes: the ids of the metronomes in the map

instVars == <<instances, playables, parameters, nextInstanceId, hung>>
streamVars == <<streams, nextStreamId, unloader, freed, audioDropped>>
histVars == <<hAge, hSince, hPending, hMixed, hEvicted>>
trackVars == <<effect_slots, nextEffectId, hApplied>>
groupVars == <<groups, nextGroupId, playable_groups, hCommand>>
metronomeVars == <<metronome, events, hTicks>>
sequenceVars == <<sequence, nextSequenceInstanceId, output_command_queue, custom_events,
                  hStarted, hUpdates, hControlled, hPushed, hTrace, hDispatched>>
queueVars == <<num_commands, command_queue, draining, nextCommandId, hSent, hReceived, hResult>>
twinVars == <<twin>>
threadVars == <<manager, wrapper, device_stream, quit_signal, quit_receiver, setup_result>>
frameVars == <<hFinished, hLast, metronome_ids>>
restVars == <<trackVars, groupVars, metronomeVars, sequenceVars, queueVars, twinVars, threadVars, frameVars>>
\* the parts other than the track
restButTrack == <<groupVars, metronomeVars, sequenceVars, queueVars, twinVars, threadVars, frameVars>>
\* the parts other than the groups
restButGroup == <<trackVars, metronomeVars, sequenceVars, queueVars, twinVars, threadVars, frameVars>>
\* the parts other than the metronome
restButMetronome == <<trackVars, groupVars, sequenceVars, queueVars, twinVars, threadVars, frameVars>>
\* the parts other than the metronome and the sequence
restButSequence == <<trackVars, groupVars, queueVars, twinVars, threadVars, frameVars>>
\* the parts other than the command channel
restButQueue == <<trackVars, groupVars, metronomeVars, sequenceVars, twinVars, threadVars, frameVars>>
\* the parts other than the history of the frames
restButFrame == <<trackVars, groupVars, metronomeVars, sequenceVars, queueVars, twinVars, threadVars>>
\* the parts the two engines of SpecTwin leave alone
restButTwin == <<trackVars, groupVars, queueVars, threadVars, frameVars>>
vars == <<instances, playables, parameters, nextInstanceId, hung,
          streams, nextStreamId, unloader, freed, audioDropped,
          hAge, hSince, hPending, hMixed, hEvicted, restVars>>

----------------------------------------------------------------------------
(* Bounds and scales *)

\* dt of one process call, in time units
Dt == 2
\* full scale (1.0) of fade_volume
FadeOne == 12
\* Instances::new(capacity): settings.num_instances
NumInstances == 2
\* how many instance ids the control side mints in a run
MaxInstanceIds == 3
\* longest sound, in samples
MaxSamples == 2
\* longest cooldown, in time units (Dt of them are one frame)
MaxCooldown == 4
\* stream ids minted in a run
MaxStreamIds == 12
\* streams registered at the same time
MaxLiveStreams == 2
\* effect ids minted in a run
MaxEffectIds == 4
\* group ids minted in a run
MaxGroupIds == 3
\* Play commands in a run of the group commands
MaxGroupPlays == 1
\* fastest tempo, in beat units per frame
MaxTempo == 3
\* longest metronome interval, in beat units
MaxInterval == 4
\* beats a metronome runs for, in beat units
MaxBeats == 12
\* room in the metronome's event channel
EventCapacity == 6
\* flume::bounded(10): room in the unloader channel
UnloaderCapacity == 10

None == <<>>
Some(v) == <<v>>
IsSome(o) == Len(o) = 1
Unwrap(o) == o[1]

Min(a, b) == IF a < b THEN a ELSE b
Max(a, b) == IF a > b THEN a ELSE b
Clamp(x, lo, hi) == Max(lo, Min(x, hi))

----------------------------------------------------------------------------
(* value.rs: Value and CachedValue *)

Fixed(v) == [kind |-> "Fixed", a |-> v, b |-> 0]
ParameterValue(id, mapping) == [kind |-> "Parameter", a |-> id, b |-> mapping]
Random(lo, hi) == [kind |-> "Random", a |-> lo, b |-> hi]

\* the outcomes random_in_range(lower, upper) can produce
RandomInRange(value) ==
    IF value.kind = "Random" THEN Min(value.a, value.b) .. Max(value.a, value.b) ELSE {0}

\* Mapping::map, an offset mapping
MappingMap(mapping, x) == x + mapping

\* CachedValue::new; rnd is the outcome of the random draw
CachedValueNew(value, default_value, rnd) ==
    [value |-> value,
     last_value |-> CASE value.kind = "Fixed" -> value.a
                      [] value.kind = "Parameter" -> default_value
                      [] OTHER -> rnd]

\* CachedValue::set; rnd is the outcome of the random draw
CachedValueSet(cv, value, rnd) ==
    [value |-> value,
     last_value |-> IF value.kind = "Random" THEN rnd ELSE cv.last_value]

\* CachedValue::update
CachedValueUpdate(cv, params) ==
    IF cv.value.kind = "Parameter" /\ cv.value.a \in DOMAIN params
    THEN [cv EXCEPT !.last_value = MappingMap(cv.value.b, params[cv.value.a])]
    ELSE cv

\* CachedValue::value
CachedValueValue(cv) == cv.last_value

----------------------------------------------------------------------------
(* parameter: the fade_volume Parameter and its tween *)

ParameterNew(value) == [value |-> value, tween |-> None]

\* Parameter::set(target, tween): snap, or start an interpolation from the current value
ParameterSet(param, target, tween) ==
    IF IsSome(tween)
    THEN [value |-> param.value,
          tween |-> Some([start |-> param.value, target |-> target,
                          duration |-> Unwrap(tween), time |-> 0])]
    ELSE [value |-> target, tween |-> None]

\* Parameter::update(dt): the parameter after one frame, and whether its tween finished
ParameterUpdate(param) ==
    IF IsSome(param.tween)
    THEN LET tw == Unwrap(param.tween)
             time == tw.time + Dt
         IN  IF time >= tw.duration
             THEN [param |-> [value |-> tw.target, tween |-> None], finished |-> TRUE]
             ELSE [param |-> [value |-> tw.start + ((tw.target - tw.start) * time) \div tw.duration,
                              tween |-> Some([tw EXCEPT !.time = time])],
                   finished |-> FALSE]
    ELSE [param |-> param, finished |-> FALSE]

----------------------------------------------------------------------------
(* instance/mod.rs: Instance *)

Playing == [tag |-> "Playing", pos |-> 0]
Paused(p) == [tag |-> "Paused", pos |-> p]
Stopped == [tag |-> "Stopped", pos |-> 0]
Pausing(p) == [tag |-> "Pausing", pos |-> p]
Stopping == [tag |-> "Stopping", pos |-> 0]

\* InstanceLoopStart::into_option: Default takes the playable's default, Custom is
\* clamped to [0, duration]
LoopStartIntoOption(loop_start, playable) ==
    CASE loop_start.kind = "Default" -> playable.default_loop_start
      [] loop_start.kind = "None" -> None
      [] OTHER -> Some(Clamp(loop_start.v, 0, playable.duration))

\* Instance::new
InstanceNew(id, p, playable, settings, rnd) ==
    [id |-> id,
     playable |-> p,
     duration |-> playable.duration,
     volume |-> CachedValueNew(settings.volume, 1, rnd.volume),
     pitch |-> CachedValueNew(settings.pitch, 1, rnd.pitch),
     panning |-> CachedValueNew(settings.panning, 1, rnd.panning),
     loop_start |-> LoopStartIntoOption(settings.loop_start, playable),
     reverse |-> settings.reverse,
     state |-> Playing,
     position |-> IF settings.reverse
                  THEN playable.duration - settings.start_position
                  ELSE settings.start_position,
     fade_volume |-> IF IsSome(settings.fade_in_tween)
                     THEN ParameterSet(ParameterNew(0), FadeOne, settings.fade_in_tween)
                     ELSE ParameterNew(FadeOne)]

\* Instance::playing
playing(inst) == inst.state.tag \in {"Playing", "Pausing", "Stopping"}

\* Instance::finished
finished(inst) == inst.state = Stopped

\* Instance::set_volume
set_volume(inst, value, rnd) == [inst EXCEPT !.volume = CachedValueSet(@, value, rnd)]

\* Instance::set_pitch
set_pitch(inst, value, rnd) == [inst EXCEPT !.pitch = CachedValueSet(@, value, rnd)]

\* Instance::set_panning
set_panning(inst, value, rnd) == [inst EXCEPT !.panning = CachedValueSet(@, value, rnd)]

\* Instance::seek
seek(inst, offset) == [inst EXCEPT !.position = @ + offset]

\* Instance::seek_to
seek_to(inst, position) == [inst EXCEPT !.position = position]

\* a slip: the pause records the start of the sound instead of the position
pause_AtStart(inst, fade_tween) ==
    [inst EXCEPT !.state = IF IsSome(fade_tween) THEN Pausing(0) ELSE Paused(0),
                 !.fade_volume = ParameterSet(@, 0, fade_tween)]

\* Instance::pause
pause(inst, fade_tween) ==
    [inst EXCEPT !.state = IF IsSome(fade_tween) THEN Pausing(inst.position)
                                                 ELSE Paused(inst.position),
                 !.fade_volume = ParameterSet(@, 0, fade_tween)]

\* a slip: resume does not look at the state
resume_AnyState(inst, fade_tween, rewind_to_pause_position) ==
    [inst EXCEPT !.state = Playing,
                 !.position = IF rewind_to_pause_position THEN inst.state.pos ELSE @,
                 !.fade_volume = ParameterSet(@, FadeOne, fade_tween)]

\* Instance::resume
resume(inst, fade_tween, rewind_to_pause_position) ==
    IF inst.state.tag \in {"Paused", "Pausing"}
    THEN [inst EXCEPT !.state = Playing,
                      !.position = IF rewind_to_pause_position THEN inst.state.pos ELSE @,
                      !.fade_volume = ParameterSet(@, FadeOne, fade_tween)]
    ELSE inst

\* Instance::stop
stop(inst, fade_tween) ==
    [inst EXCEPT !.state = IF IsSome(fade_tween) THEN Stopping ELSE Stopped,
                 !.fade_volume = ParameterSet(@, 0, fade_tween)]

\* the forward wrap loop of Instance::update: while position > duration
\* a slip: a position past the end jumps to the loop start
WrapForwardToLoopStart(position, loop_start, duration) ==
    IF position > duration THEN loop_start ELSE position

RECURSIVE WrapForward(_, _, _)
WrapForward(position, loop_start, duration) ==
    IF position > duration
    THEN WrapForward(position - (duration - loop_start), loop_start, duration)
    ELSE position

\* the reverse wrap loop of Instance::update: while position < loop_start
RECURSIVE WrapReverse(_, _, _)
WrapReverse(position, loop_start, duration) ==
    IF position < loop_start
    THEN WrapReverse(position + (duration - loop_start), loop_start, duration)
    ELSE position

\* a slip: the direction tests of update do not see that the instance is reversed
EffectivePitch_Forward(inst) == CachedValueValue(inst.pitch)

\* the effective rate Instance::update moves the position by
EffectivePitch(inst) ==
    IF inst.reverse THEN -CachedValueValue(inst.pitch) ELSE CachedValueValue(inst.pitch)

\* the first half of Instance::update: volume, pitch, panning and the position advance
Advance(inst, params) ==
    [inst EXCEPT !.volume = CachedValueUpdate(@, params),
                 !.pitch = CachedValueUpdate(@, params),
                 !.panning = CachedValueUpdate(@, params),
                 !.position = @ + (IF inst.reverse
                                   THEN -CachedValueValue(CachedValueUpdate(inst.pitch, params))
                                   ELSE CachedValueValue(CachedValueUpdate(inst.pitch, params))) * Dt]

\* whether a wrap loop of Instance::update never ends for the advanced instance:
\* its condition holds and its step does not move the position toward the range
Diverges(inst, params) ==
    /\ playing(inst)
    /\ IsSome(inst.loop_start)
    /\ LET adv == Advance(inst, params)
           step == adv.duration - Unwrap(adv.loop_start)
       IN  /\ step <= 0
           /\ IF EffectivePitch(adv) < 0
              THEN adv.position < Unwrap(adv.loop_start)
              ELSE adv.position > adv.duration

\* a slip: the end of the sound itself already counts as past the end
PastEndInclusive(position, duration) == position >= duration

\* the forward end test of Instance::update: self.position > self.playable.duration()
PastEnd(position, duration) == position > duration

\* a finished pause fade that pauses at the position the instance has reached
FinishFade_AtCurrentPosition(inst) ==
    CASE inst.state.tag = "Pausing" -> [inst EXCEPT !.state = Paused(inst.position)]
      [] inst.state.tag = "Stopping" -> [inst EXCEPT !.state = Stopped]
      [] OTHER -> inst

\* the end of Instance::update when the fade tween reports finished
FinishFade(inst) ==
    CASE inst.state.tag = "Pausing" -> [inst EXCEPT !.state = Paused(inst.state.pos)]
      [] inst.state.tag = "Stopping" -> [inst EXCEPT !.state = Stopped]
      [] OTHER -> inst

\* Instance::update, for an instance whose wrap loops end
update(inst, params) ==
    LET moved ==
            IF playing(inst)
            THEN LET adv == Advance(inst, params)
                     pitch == EffectivePitch(adv)
                 IN  IF pitch < 0
                     THEN IF IsSome(adv.loop_start)
                          THEN [adv EXCEPT !.position =
                                    WrapReverse(@, Unwrap(adv.loop_start), adv.duration)]
                          ELSE IF adv.position < 0
                               THEN [adv EXCEPT !.state = Stopped]
                               ELSE adv
                     ELSE IF IsSome(adv.loop_start)
                          THEN [adv EXCEPT !.position =
                                    WrapForward(@, Unwrap(adv.loop_start), adv.duration)]
                          ELSE IF PastEnd(adv.position, adv.duration)
                               THEN [adv EXCEPT !.state = Stopped]
                               ELSE adv
            ELSE inst
        fade == ParameterUpdate(moved.fade_volume)
        faded == [moved EXCEPT !.fade_volume = fade.param]
    IN  IF fade.finished THEN FinishFade(faded) ELSE faded

----------------------------------------------------------------------------
(* arrangement/mod.rs: the cooldown of a playable *)

\* Arrangement::start_cooldown
start_cooldown(playable) ==
    IF IsSome(playable.cooldown)
    THEN [playable EXCEPT !.cooldown_timer = Unwrap(playable.cooldown)]
    ELSE playable

\* a slip: the timer is never counted down
update_cooldown_Frozen(playable) == playable

\* Arrangement::update_cooldown
update_cooldown(playable) ==
    IF playable.cooldown_timer > 0
    THEN [playable EXCEPT !.cooldown_timer = @ - Dt]
    ELSE playable

\* a slip: the timer's last frame counts as elapsed
cooling_down_LastFrameFree(playable) == playable.cooldown_timer > Dt

\* Arrangement::cooling_down
cooling_down(playable) == playable.cooldown_timer > 0

----------------------------------------------------------------------------
(* static_container: the bounded, insertion-ordered StaticIndexMap *)

Ids(map) == {map[i].id : i \in DOMAIN map}

\* StaticIndexMap::get: the index of the entry with this id, 0 when there is none
IndexOf(map, id) ==
    IF id \in Ids(map) THEN CHOOSE i \in DOMAIN map : map[i].id = id ELSE 0

\* a slip: the newest entry is removed instead of the oldest
ShiftRemoveNewest(map) == IF map = <<>> THEN map ELSE SubSeq(map, 1, Len(map) - 1)

\* StaticIndexMap::shift_remove_index(0)
ShiftRemoveIndex0(map) == IF map = <<>> THEN map ELSE Tail(map)

\* StaticIndexMap::try_insert: replaces in place, appends, or fails when full
TryInsert(map, capacity, inst) ==
    IF inst.id \in Ids(map)
    THEN [map EXCEPT ![IndexOf(map, inst.id)] = inst]
    ELSE IF Len(map) >= capacity THEN map ELSE Append(map, inst)

\* StaticVec::try_push
TryPush(vec, capacity, x) == IF Len(vec) >= capacity THEN vec ELSE Append(vec, x)

----------------------------------------------------------------------------
(* manager/backend/instances.rs: Instances *)

\* the instances after the insertion of Instances::run_command, Play: at the
\* instance limit the one started the longest time ago goes first
Inserted(map, inst) ==
    TryInsert(IF Len(map) >= NumInstances THEN ShiftRemoveIndex0(map) ELSE map,
              NumInstances, inst)

\* a slip: the playable of a Play is not looked up, an instance of a sound that is
\* not loaded is inserted
Play_AnyPlayable(p, settings, rnd) ==
    /\ ~hung
    /\ nextInstanceId < MaxInstanceIds
    /\ nextInstanceId' = nextInstanceId + 1
    /\ LET inst == InstanceNew(nextInstanceId, p, playables[p], settings, rnd)
       IN  IF ~cooling_down(playables[p])
           THEN /\ instances' = Inserted(instances, inst)
                /\ playables' = [playables EXCEPT ![p] = start_cooldown(@)]
           ELSE UNCHANGED <<instances, playables>>
    /\ UNCHANGED <<parameters, hung>>

\* a slip: room is made before the cooldown is looked at
Play_EvictsFirst(p, settings, rnd) ==
    /\ ~hung
    /\ nextInstanceId < MaxInstanceIds
    /\ nextInstanceId' = nextInstanceId + 1
    /\ LET inst == InstanceNew(nextInstanceId, p, playables[p], settings, rnd)
           room == IF Len(instances) >= NumInstances
                   THEN ShiftRemoveIndex0(instances) ELSE instances
       IN  IF playables[p].loaded
           THEN IF ~cooling_down(playables[p])
                THEN /\ instances' = TryInsert(room, NumInstances, inst)
                     /\ playables' = [playables EXCEPT ![p] = start_cooldown(@)]
                ELSE /\ instances' = room
                     /\ UNCHANGED playables
           ELSE UNCHANGED <<instances, playables>>
    /\ UNCHANGED <<parameters, hung>>

\* SoundHandle::play and Instances::run_command, Play: the control side mints the id
\* and builds the instance, the audio side inserts it unless the playable cools down
Play(p, settings, rnd) ==
    /\ ~hung
    /\ nextInstanceId < MaxInstanceIds
    /\ nextInstanceId' = nextInstanceId + 1
    /\ LET inst == InstanceNew(nextInstanceId, p, playables[p], settings, rnd)
       IN  IF playables[p].loaded /\ ~cooling_down(playables[p])
           THEN /\ instances' = Inserted(instances, inst)
                /\ playables' = [playables EXCEPT ![p] = start_cooldown(@)]
           ELSE UNCHANGED <<instances, playables>>
    /\ UNCHANGED <<parameters, hung>>

\* Instances::run_command, SetInstanceVolume
SetInstanceVolume(id, value, rnd) ==
    /\ ~hung
    /\ instances' = [i \in DOMAIN instances |->
            IF instances[i].id = id THEN set_volume(instances[i], value, rnd) ELSE instances[i]]
    /\ UNCHANGED <<playables, parameters, nextInstanceId, hung>>

\* Instances::run_command, SetInstancePlaybackRate (Instance::set_pitch)
SetInstancePitch(id, value, rnd) ==
    /\ ~hung
    /\ instances' = [i \in DOMAIN instances |->
            IF instances[i].id = id THEN set_pitch(instances[i], value, rnd) ELSE instances[i]]
    /\ UNCHANGED <<playables, parameters, nextInstanceId, hung>>

\* Instances::run_command, SetInstancePanning
SetInstancePanning(id, value, rnd) ==
    /\ ~hung
    /\ instances' = [i \in DOMAIN instances |->
            IF instances[i].id = id THEN set_panning(instances[i], value, rnd) ELSE instances[i]]
    /\ UNCHANGED <<playables, parameters, nextInstanceId, hung>>

\* Instances::run_command, SeekInstance
SeekInstance(id, offset) ==
    /\ ~hung
    /\ instances' = [i \in DOMAIN instances |->
            IF instances[i].id = id THEN seek(instances[i], offset) ELSE instances[i]]
    /\ UNCHANGED <<playables, parameters, nextInstanceId, hung>>

\* Instances::run_command, SeekInstanceTo
SeekInstanceTo(id, position) ==
    /\ ~hung
    /\ instances' = [i \in DOMAIN instances |->
            IF instances[i].id = id THEN seek_to(instances[i], position) ELSE instances[i]]
    /\ UNCHANGED <<playables, parameters, nextInstanceId, hung>>

\* Instances::run_command, PauseInstance
PauseInstance(id, fade_tween) ==
    /\ ~hung
    /\ instances' = [i \in DOMAIN instances |->
            IF instances[i].id = id THEN pause(instances[i], fade_tween) ELSE instances[i]]
    /\ UNCHANGED <<playables, parameters, nextInstanceId, hung>>

\* Instances::run_command, ResumeInstance
ResumeInstance(id, fade_tween, rewind) ==
    /\ ~hung
    /\ instances' = [i \in DOMAIN instances |->
            IF instances[i].id = id THEN resume(instances[i], fade_tween, rewind) ELSE instances[i]]
    /\ UNCHANGED <<playables, parameters, nextInstanceId, hung>>

\* Instances::run_command, StopInstance
StopInstance(id, fade_tween) ==
    /\ ~hung
    /\ instances' = [i \in DOMAIN instances |->
            IF instances[i].id = id THEN stop(instances[i], fade_tween) ELSE instances[i]]
    /\ UNCHANGED <<playables, parameters, nextInstanceId, hung>>

\* a slip: every instance that is not playing is noted for removal, Paused ones too
RECURSIVE ToRemoveNotPlaying(_, _)
ToRemoveNotPlaying(map, i) ==
    IF i = 0 THEN <<>>
    ELSE IF ~playing(map[i])
         THEN TryPush(ToRemoveNotPlaying(map, i - 1), NumInstances, map[i].id)
         ELSE ToRemoveNotPlaying(map, i - 1)

\* the ids Instances::process pushes to instances_to_remove, in iteration order
RECURSIVE ToRemove(_, _)
ToRemove(map, i) ==
    IF i = 0 THEN <<>>
    ELSE IF finished(map[i])
         THEN TryPush(ToRemove(map, i - 1), NumInstances, map[i].id)
         ELSE ToRemove(map, i - 1)

\* the entries of a map whose ids are not in the set
RECURSIVE Without(_, _)
Without(map, ids) ==
    IF map = <<>> THEN <<>>
    ELSE IF Head(map).id \in ids
         THEN Without(Tail(map), ids)
         ELSE <<Head(map)>> \o Without(Tail(map), ids)

\* the index of the first instance whose update never returns, 0 when every update ends
HangAt(map, params) ==
    IF \E i \in DOMAIN map : Diverges(map[i], params)
    THEN CHOOSE i \in DOMAIN map :
            /\ Diverges(map[i], params)
            /\ \A j \in 1..(i - 1) : ~Diverges(map[j], params)
    ELSE 0

\* the instances whose sample Instances::process adds to the mixer in a call made in
\* this state: the playing ones, up to the first whose update never returns
Contributors ==
    LET k == HangAt(instances, parameters)
        last == IF k = 0 THEN Len(instances) ELSE k
    IN  {instances[i].id : i \in {j \in 1..last : playing(instances[j])}}

\* the instances after an Instances::process call in which every update returns:
\* the finished ones are noted, every instance is updated, the noted are removed
Processed(map, params) ==
    LET removed == ToRemove(map, Len(map))
    IN  Without([i \in DOMAIN map |-> update(map[i], params)],
                {removed[i] : i \in DOMAIN removed})

\* one frame of the backend: the playables' cooldowns advance, then Instances::process
\* adds each playing instance's sample to the mixer, notes the finished ones, updates
\* every instance and removes the noted ones
Process ==
    /\ ~hung
    /\ playables' = [p \in DOMAIN playables |-> update_cooldown(playables[p])]
    /\ LET k == HangAt(instances, parameters)
           removed == ToRemove(instances, Len(instances))
       IN  IF k = 0
           THEN /\ instances' = Processed(instances, parameters)
                /\ hung' = FALSE
           ELSE /\ instances' = [i \in DOMAIN instances |->
                                    IF i < k THEN update(instances[i], parameters)
                                    ELSE IF i = k THEN Advance(instances[i], parameters)
                                    ELSE instances[i]]
                /\ hung' = TRUE
    /\ UNCHANGED <<parameters, nextInstanceId>>

----------------------------------------------------------------------------
(* Inputs *)

\* a loaded playable of n samples
Playable(samples, cooldown) ==
    [loaded |-> TRUE, duration |-> samples * Dt, default_loop_start |-> None,
     cooldown |-> cooldown, cooldown_timer |-> 0]

\* InstanceSettings::default: volume 1, pitch 1, centred, forward from the start
DefaultSettings ==
    [volume |-> Fixed(1), pitch |-> Fixed(1), panning |-> Fixed(1),
     reverse |-> FALSE, start_position |-> 0, fade_in_tween |-> None,
     loop_start |-> [kind |-> "Default", v |-> 0]]

Custom(v) == [kind |-> "Custom", v |-> v]

NoDraw == [volume |-> 0, pitch |-> 0, panning |-> 0]

\* no fade, or a fade of one frame
Tweens == {None, Some(Dt)}

InstanceIds == 0..(MaxInstanceIds - 1)

\* an accepted Play: the id this step minted is in the set afterwards
Accepted == nextInstanceId' = nextInstanceId + 1 /\ nextInstanceId \in Ids(instances')

InitInstances ==
    /\ instances = <<>>
    /\ nextInstanceId = 0
    /\ hung = FALSE

InitStreams ==
    /\ streams = <<>>
    /\ nextStreamId = 0
    /\ unloader = <<>>
    /\ freed = {}
    /\ audioDropped = {}

InitTrack ==
    /\ effect_slots = <<>>
    /\ nextEffectId = 0
    /\ hApplied = <<>>

\* no group command ran
NoCommand == [kind |-> "None", id |-> 0]

\* no group exists and no playable is in a group
InitGroups ==
    /\ groups = <<>>
    /\ nextGroupId = 0
    /\ playable_groups = <<>>
    /\ hCommand = NoCommand

\* Metronome::new; the tempo is in beat units per frame: (tempo / 60) * dt
MetronomeNew(tempo, interval_events_to_emit) ==
    [tempo |-> CachedValueNew(tempo, 2, 0),
     interval_events_to_emit |-> interval_events_to_emit,
     ticking |-> FALSE, time |-> 0, previous_time |-> 0]

InitMetronome ==
    /\ metronome = MetronomeNew(Fixed(1), <<>>)
    /\ events = <<>>
    /\ hTicks = 0

\* the state of the parts a specification leaves alone
\* SequenceInstance::new
SequenceInstanceNew(raw, metronome_id) ==
    [sequence |-> raw, metronome |-> metronome_id, state |-> "Playing",
     position |-> 0, wait_timer |-> None, muted |-> FALSE]

\* the history of a sequence nobody has started
InitSequenceHist ==
    /\ output_command_queue = <<>>
    /\ custom_events = <<>>
    /\ hStarted = FALSE
    /\ hUpdates = 0
    /\ hControlled = FALSE
    /\ hPushed = <<>>
    /\ hTrace = <<>>
    /\ hDispatched = 0

\* a sequence without steps
InitSequence ==
    /\ sequence = SequenceInstanceNew([steps |-> <<>>, loop_point |-> None], None)
    /\ nextSequenceInstanceId = 1
    /\ InitSequenceHist

\* the command channel of create_thread_channels with room for capacity commands
InitQueueOf(capacity) ==
    /\ num_commands = capacity
    /\ command_queue = <<>>
    /\ draining = 0
    /\ nextCommandId = 0
    /\ hSent = <<>>
    /\ hReceived = <<>>
    /\ hResult = "Ok"

\* a command channel for one command
InitQueue == InitQueueOf(1)

\* no second engine
InitTwin == twin = None

\* no instance command ran
NoInstanceCommand == [kind |-> "None", known |-> TRUE, cooling |-> FALSE, full |-> FALSE]

\* no process call has been made
InitFrame ==
    /\ hFinished = {}
    /\ hLast = NoInstanceCommand
    /\ metronome_ids = {1}

\* AudioManager::new_without_audio_thread: a manager without a wrapper thread, the
\* quit signal receiver dropped at once
InitThread ==
    /\ manager = "alive"
    /\ wrapper = "none"
    /\ device_stream = "none"
    /\ quit_signal = <<>>
    /\ quit_receiver = FALSE
    /\ setup_result = <<>>

InitRest ==
    /\ InitTrack
    /\ InitGroups
    /\ InitMetronome
    /\ InitSequence
    /\ InitQueue
    /\ InitTwin
    /\ InitThread
    /\ InitFrame

InitHist ==
    /\ hAge = <<>>
    /\ hSince = <<>>
    /\ hPending = {}
    /\ hMixed = {}
    /\ hEvicted = {}

\* the instances of the set that are gone after the step
Gone == {instances[i] : i \in {j \in DOMAIN instances : instances[j].id \notin Ids(instances')}}

----------------------------------------------------------------------------
(* Spec: instances of one sound under Play, pause, resume, stop and process *)

PositionsBounded ==
    \A i \in DOMAIN instances :
        playing(instances[i]) => instances[i].position <= instances[i].duration + Dt

Init ==
    /\ InitInstances
    /\ playables = [p \in {1} |-> Playable(1, None)]
    /\ parameters = <<>>
    /\ InitStreams
    /\ InitRest
    /\ InitHist

Next ==
    \/ /\ Play(1, DefaultSettings, NoDraw)
       /\ hEvicted' = Gone
       /\ UNCHANGED <<restVars, streamVars, hAge, hSince, hPending, hMixed>>
    \/ /\ \E id \in InstanceIds, t \in Tweens : PauseInstance(id, t)
       /\ hEvicted' = {}
       /\ UNCHANGED <<restVars, streamVars, hAge, hSince, hPending, hMixed>>
    \/ /\ \E id \in InstanceIds, t \in Tweens, r \in BOOLEAN : ResumeInstance(id, t, r)
       /\ hEvicted' = {}
       /\ UNCHANGED <<restVars, streamVars, hAge, hSince, hPending, hMixed>>
    \/ /\ \E id \in InstanceIds, t \in Tweens : StopInstance(id, t)
       /\ hEvicted' = {}
       /\ UNCHANGED <<restVars, streamVars, hAge, hSince, hPending, hMixed>>
    \/ /\ PositionsBounded
       /\ Process
       /\ hEvicted' = {}
       /\ UNCHANGED <<restVars, streamVars, hAge, hSince, hPending, hMixed>>

Spec == Init /\ [][Next]_vars

\* C1: the instance set never holds more than num_instances instances, and an accepted
\* Play that finds the set full removes the instance at index 0 and no other: the
\* set afterwards is the old one without its first entry, then the new instance.
C1_CapacityEvictsOldest ==
    /\ Len(instances) <= NumInstances
    /\ [][/\ Len(instances') <= NumInstances
          /\ (Accepted /\ Len(instances) >= NumInstances) =>
                /\ Len(instances') = Len(instances)
                /\ SubSeq(instances', 1, Len(instances') - 1) = Tail(instances)
                /\ instances'[Len(instances')].id = nextInstanceId]_vars

\* a Play has just evicted the oldest instance from a full set of at least two
C1_Witness ==
    /\ hEvicted # {}
    /\ Len(instances) = NumInstances
    /\ Len(instances) >= 2
    /\ \A e \in hEvicted : \A i \in DOMAIN instances : e.id < instances[i].id

\* C2 as stated: an instance leaves the set only from state Stopped.
C2_RemovedOnlyStopped ==
    [][\A i \in DOMAIN instances :
            instances[i].id \notin Ids(instances') => instances[i].state = Stopped]_vars

\* C2 as amended: an instance leaves the set only from state Stopped, or as the
\* oldest instance (index 0) when an accepted Play finds the set full.
C2_RemovedStoppedOrEvicted ==
    [][\A i \in DOMAIN instances :
            instances[i].id \notin Ids(instances') =>
                \/ instances[i].state = Stopped
                \/ i = 1 /\ Accepted /\ Len(instances) >= NumInstances]_vars

\* an instance that was not Stopped has just been evicted
C2_Witness == \E e \in hEvicted : e.state # Stopped

\* C3: once an instance is Stopped, no step gives it another state while it is in
\* the set.
C3_StoppedIsTerminal ==
    [][\A i \in DOMAIN instances : \A j \in DOMAIN instances' :
            (instances[i].state = Stopped /\ instances'[j].id = instances[i].id)
                => instances'[j].state = Stopped]_vars

----------------------------------------------------------------------------
(* SpecCooldown: Play and process on two sounds with any cooldown up to MaxCooldown *)

Cooldowns == {None} \cup {Some(c) : c \in 0..MaxCooldown}

InitCooldown ==
    /\ InitInstances
    /\ playables \in [{1, 2} -> {Playable(1, c) : c \in Cooldowns}]
    /\ parameters = <<>>
    /\ InitStreams
    /\ InitRest
    /\ hAge = <<>>
    /\ hSince = [p \in {1, 2} |-> -1]
    /\ hPending = {}
    /\ hMixed = {}
    /\ hEvicted = {}

NextCooldown ==
    \/ /\ \E p \in DOMAIN playables :
            /\ Play(p, DefaultSettings, NoDraw)
            /\ hSince' = IF Accepted THEN [hSince EXCEPT ![p] = 0] ELSE hSince
       /\ UNCHANGED <<restVars, streamVars, hAge, hPending, hMixed, hEvicted>>
    \/ /\ Process
       /\ hSince' = [p \in DOMAIN hSince |->
                        IF hSince[p] < 0 THEN -1 ELSE Min(hSince[p] + 1, MaxCooldown)]
       /\ UNCHANGED <<restVars, streamVars, hAge, hPending, hMixed, hEvicted>>

SpecCooldown == InitCooldown /\ [][NextCooldown]_vars

\* C4 as stated: two accepted Plays of a playable with cooldown C are at least C
\* time units (frames times dt) apart, and of two Plays of it in the same frame the
\* second is rejected.
C4_SecondInFrameRejected ==
    [][\A p \in DOMAIN playables :
            ( /\ Accepted
              /\ instances'[Len(instances')].playable = p
              /\ IsSome(playables[p].cooldown)
              /\ hSince[p] >= 0 )
            => /\ hSince[p] * Dt >= Unwrap(playables[p].cooldown)
               /\ hSince[p] >= 1]_vars

\* C4: two accepted Plays of a playable with cooldown C are at least C time units
\* (frames times dt) apart; when C > 0, of two Plays of it in the same frame the
\* second is rejected.
C4_CooldownSeparatesPlays ==
    [][\A p \in DOMAIN playables :
            ( /\ Accepted
              /\ instances'[Len(instances')].playable = p
              /\ IsSome(playables[p].cooldown)
              /\ hSince[p] >= 0 )
            => /\ hSince[p] * Dt >= Unwrap(playables[p].cooldown)
               /\ Unwrap(playables[p].cooldown) > 0 => hSince[p] >= 1]_vars

\* a second Play of a sound whose cooldown is longer than a frame has just been
\* accepted while the instance of the first is still in the set
C4_Witness ==
    \E i, j \in DOMAIN instances :
        /\ i < j
        /\ instances[i].playable = instances[j].playable
        /\ IsSome(playables[instances[i].playable].cooldown)
        /\ Unwrap(playables[instances[i].playable].cooldown) > Dt
        /\ hSince[instances[i].playable] = 0

----------------------------------------------------------------------------
(* Streams (manager/backend/streams.rs) and the unloader channel (manager/mod.rs) *)

\* IndexMap::swap_remove (what IndexMap::remove does): the last entry takes the hole
SwapRemove(map, i) ==
    IF i = Len(map) THEN SubSeq(map, 1, Len(map) - 1)
    ELSE SubSeq([map EXCEPT ![i] = map[Len(map)]], 1, Len(map) - 1)

\* a slip: the resource is dropped where it was removed, nothing is sent
TrySendNever(queue, capacity, x) == [queue |-> queue, sent |-> FALSE]

\* Sender::try_send on a bounded channel: Err(Full) when the channel is full
TrySend(queue, capacity, x) ==
    IF Len(queue) < capacity THEN [queue |-> Append(queue, x), sent |-> TRUE]
    ELSE [queue |-> queue, sent |-> FALSE]

\* StreamCommand::AddStream: the control side minted the id
AddStream ==
    /\ nextStreamId < MaxStreamIds
    /\ Len(streams) < MaxLiveStreams
    /\ nextStreamId' = nextStreamId + 1
    /\ streams' = Append(streams, nextStreamId + 1)
    /\ UNCHANGED <<unloader, freed, audioDropped>>

\* StreamCommand::RemoveStream: remove, then try_send(..).ok(); a failed send
\* hands the resource back inside the Err, which ok() drops on the spot
RemoveStream(id) ==
    IF \E i \in DOMAIN streams : streams[i] = id
    THEN LET i == CHOOSE k \in DOMAIN streams : streams[k] = id
             r == TrySend(unloader, UnloaderCapacity, id)
         IN  /\ streams' = SwapRemove(streams, i)
             /\ unloader' = r.queue
             /\ audioDropped' = IF r.sent THEN audioDropped ELSE audioDropped \cup {id}
             /\ UNCHANGED <<nextStreamId, freed>>
    ELSE UNCHANGED streamVars

\* AudioManager::free_unused_resources: drain the channel, drop what it held
FreeUnusedResources ==
    /\ freed' = freed \cup {unloader[i] : i \in DOMAIN unloader}
    /\ unloader' = <<>>
    /\ UNCHANGED <<streams, nextStreamId, audioDropped>>

InitUnload ==
    /\ InitInstances
    /\ playables = <<>>
    /\ parameters = <<>>
    /\ InitStreams
    /\ InitRest
    /\ InitHist

NextUnload ==
    \/ AddStream /\ UNCHANGED <<instVars, histVars, restVars>>
    \/ (\E id \in 1..MaxStreamIds : RemoveStream(id)) /\ UNCHANGED <<instVars, histVars, restVars>>
    \/ FreeUnusedResources /\ UNCHANGED <<instVars, histVars, restVars>>

SpecUnload == InitUnload /\ [][NextUnload]_vars

\* C5: every removed resource goes through the unloader queue and is destroyed
\* only by free_unused_resources: whatever number of removals happens between two
\* drains, no resource is dropped on the audio thread.
C5_NothingDroppedOnAudioThread == audioDropped = {}

----------------------------------------------------------------------------
(* SpecValue: fixed values set on the volume, pitch and panning of instances *)

\* the fixed values a command carries
FixedValues == {Fixed(1), Fixed(2)}

\* the instances of the set that the next process call updates the values of
Updated == {instances[i].id : i \in {j \in DOMAIN instances : playing(instances[j])}}

InitValue ==
    /\ InitInstances
    /\ playables = [p \in {1} |-> Playable(MaxSamples, None)]
    /\ parameters = <<>>
    /\ InitStreams
    /\ InitRest
    /\ InitHist

NextValue ==
    \/ /\ Play(1, DefaultSettings, NoDraw)
       /\ UNCHANGED <<restVars, streamVars, histVars>>
    \/ /\ \E id \in InstanceIds, value \in FixedValues :
            /\ SetInstanceVolume(id, value, 0)
            /\ hPending' = IF id \in Ids(instances) THEN hPending \cup {<<id, "volume">>}
                           ELSE hPending
       /\ UNCHANGED <<restVars, streamVars, hAge, hSince, hMixed, hEvicted>>
    \/ /\ \E id \in InstanceIds, value \in FixedValues :
            /\ SetInstancePitch(id, value, 0)
            /\ hPending' = IF id \in Ids(instances) THEN hPending \cup {<<id, "pitch">>}
                           ELSE hPending
       /\ UNCHANGED <<restVars, streamVars, hAge, hSince, hMixed, hEvicted>>
    \/ /\ \E id \in InstanceIds, value \in FixedValues :
            /\ SetInstancePanning(id, value, 0)
            /\ hPending' = IF id \in Ids(instances) THEN hPending \cup {<<id, "panning">>}
                           ELSE hPending
       /\ UNCHANGED <<restVars, streamVars, hAge, hSince, hMixed, hEvicted>>
    \/ /\ Process
       /\ hPending' = {x \in hPending : x[1] \in Ids(instances') /\ x[1] \notin Updated}
       /\ UNCHANGED <<restVars, streamVars, hAge, hSince, hMixed, hEvicted>>

SpecValue == InitValue /\ [][NextValue]_vars

\* C6: once an instance whose volume, panning or pitch was set to Value::Fixed(v)
\* has been updated, the cached value of that field equals v.
C6_FixedValueTakesEffect ==
    \A i \in DOMAIN instances :
        /\ (instances[i].volume.value.kind = "Fixed"
                /\ <<instances[i].id, "volume">> \notin hPending)
            => CachedValueValue(instances[i].volume) = instances[i].volume.value.a
        /\ (instances[i].pitch.value.kind = "Fixed"
                /\ <<instances[i].id, "pitch">> \notin hPending)
            => CachedValueValue(instances[i].pitch) = instances[i].pitch.value.a
        /\ (instances[i].panning.value.kind = "Fixed"
                /\ <<instances[i].id, "panning">> \notin hPending)
            => CachedValueValue(instances[i].panning) = instances[i].panning.value.a

----------------------------------------------------------------------------
(* SpecLoop: forward instances with a loop start anywhere in the sound *)

\* the positions of a sound of MaxSamples samples, in time units
Positions == 0..(MaxSamples * Dt)

\* the settings of a forward instance that loops back to loop_start
LoopSettings(loop_start, start_position, pitch) ==
    [DefaultSettings EXCEPT !.loop_start = Custom(loop_start),
                            !.start_position = start_position,
                            !.pitch = Fixed(pitch)]

\* whether the instance loops and plays forward
LoopingForward(inst) == IsSome(inst.loop_start) /\ EffectivePitch(inst) > 0

InitLoop ==
    /\ InitInstances
    /\ playables = [p \in {1} |-> Playable(MaxSamples, None)]
    /\ parameters = <<>>
    /\ InitStreams
    /\ InitRest
    /\ InitHist

NextLoop ==
    \/ /\ \E loop_start \in Positions, k \in 0..MaxSamples, pitch \in {1, 2} :
            Play(1, LoopSettings(loop_start, k * Dt, pitch), NoDraw)
       /\ UNCHANGED <<restVars, streamVars, histVars>>
    \/ /\ Process
       /\ UNCHANGED <<restVars, streamVars, histVars>>

SpecLoop == InitLoop /\ [][NextLoop]_vars

\* C7: an instance with a loop start that plays forward has its position in
\* [0, duration] wherever an update leaves it, and is never Stopped by running
\* past the end.
C7_LoopKeepsPositionInRange ==
    \A i \in DOMAIN instances :
        LoopingForward(instances[i])
            => /\ 0 <= instances[i].position
               /\ instances[i].position <= instances[i].duration
               /\ instances[i].state # Stopped

\* C17: every call of Instance::update returns, whatever the loop start in
\* [0, duration] and the position: no process call leaves the audio thread in a
\* wrap loop that never ends
C17_UpdateReturns == hung = FALSE

----------------------------------------------------------------------------
(* SpecSeek: instances without a loop start, started anywhere, sought anywhere *)

\* the settings of an instance that does not loop
OneShotSettings(start_position, reverse) ==
    [DefaultSettings EXCEPT !.loop_start = [kind |-> "None", v |-> 0],
                            !.start_position = start_position,
                            !.reverse = reverse]

\* positions stay within one frame of the sound after the step
SeekBounded ==
    \A i \in DOMAIN instances' :
        /\ instances'[i].position >= -Dt
        /\ instances'[i].position <= instances'[i].duration + Dt

NextSeek ==
    \/ /\ \E k \in 0..MaxSamples, reverse \in BOOLEAN :
            Play(1, OneShotSettings(k * Dt, reverse), NoDraw)
       /\ UNCHANGED <<restVars, streamVars, histVars>>
    \/ /\ \E id \in InstanceIds, offset \in {-Dt, Dt} : SeekInstance(id, offset)
       /\ SeekBounded
       /\ UNCHANGED <<restVars, streamVars, histVars>>
    \/ /\ \E id \in InstanceIds, k \in 0..MaxSamples : SeekInstanceTo(id, k * Dt)
       /\ UNCHANGED <<restVars, streamVars, histVars>>
    \/ /\ Process
       /\ UNCHANGED <<restVars, streamVars, histVars>>

SpecSeek == InitLoop /\ [][NextSeek]_vars

\* C8: an instance with no loop start whose state is Playing has
\* 0 <= position <= duration, after construction, after a seek or seek_to and
\* after an update.
C8_PlayingPositionInRange ==
    \A i \in DOMAIN instances :
        (instances[i].loop_start = None /\ instances[i].state = Playing)
            => /\ 0 <= instances[i].position
               /\ instances[i].position <= instances[i].duration

----------------------------------------------------------------------------
(* SpecScenario: sounds of 1..MaxSamples samples played from the start with *)
(* default settings, one-shot or looping to 0, and left alone              *)

\* process calls counted per instance
MaxAge == 2 * MaxSamples + 1

InitScenario ==
    /\ InitInstances
    /\ playables = [p \in 1..MaxSamples |-> Playable(p, None)]
    /\ parameters = <<>>
    /\ InitStreams
    /\ InitRest
    /\ hAge = <<>>
    /\ hSince = <<>>
    /\ hPending = {}
    /\ hMixed = {}
    /\ hEvicted = {}

\* the ids played so far, with the process calls each has been through
Played == DOMAIN hAge

NextScenario ==
    \/ /\ Len(instances) < NumInstances
       /\ \E p \in DOMAIN playables, looping \in BOOLEAN :
            /\ Play(p, IF looping THEN LoopSettings(0, 0, 1) ELSE OneShotSettings(0, FALSE),
                    NoDraw)
            /\ hAge' = [id \in Played \cup {nextInstanceId} |->
                            IF id \in Played THEN hAge[id]
                            ELSE [calls |-> 0, samples |-> p, looping |-> looping]]
       /\ hMixed' = {}
       /\ UNCHANGED <<restVars, streamVars, hSince, hPending, hEvicted>>
    \/ /\ Process
       /\ hAge' = [id \in Played |-> [hAge[id] EXCEPT !.calls = Min(@ + 1, MaxAge)]]
       /\ hMixed' = Contributors
       /\ UNCHANGED <<restVars, streamVars, hSince, hPending, hEvicted>>

SpecScenario == InitScenario /\ [][NextScenario]_vars

\* the instance with this id, when it is in the set
InstanceOf(id) == instances[IndexOf(instances, id)]

\* C9: a one-shot forward instance at pitch 1 started at 0 on a sound of N samples
\* is Playing through its first N process calls, is Stopped after call N + 1, and
\* adds no sample to the mixer in a later call.
C9_OneShotPlaysToCompletion ==
    \A id \in Played :
        ~hAge[id].looping =>
            /\ hAge[id].calls <= hAge[id].samples =>
                    id \in Ids(instances) /\ InstanceOf(id).state = Playing
            /\ hAge[id].calls = hAge[id].samples + 1 =>
                    id \in Ids(instances) /\ InstanceOf(id).state = Stopped
            /\ id \in hMixed => hAge[id].calls <= hAge[id].samples + 1

\* a one-shot instance has just been through call N + 1 of a sound of N > 1
\* samples: it added its last sample and is now Stopped
C9_Witness ==
    \E id \in Played :
        /\ ~hAge[id].looping
        /\ hAge[id].samples > 1
        /\ hAge[id].calls = hAge[id].samples + 1
        /\ id \in hMixed
        /\ id \in Ids(instances)
        /\ InstanceOf(id).state = Stopped

\* C10 as stated: a forward instance at pitch 1 with loop_start 0 started at 0 on a
\* sound of N samples is Playing after 2N process calls, with 0 <= position < D.
C10_LoopPositionBelowDuration ==
    \A id \in Played :
        (hAge[id].looping /\ hAge[id].calls = 2 * hAge[id].samples) =>
            /\ id \in Ids(instances)
            /\ InstanceOf(id).state = Playing
            /\ 0 <= InstanceOf(id).position
            /\ InstanceOf(id).position < InstanceOf(id).duration

\* C10: a forward instance at pitch 1 with loop_start 0 started at 0 on a sound of
\* N samples is Playing after 2N process calls, with its position in the closed
\* range [0, D]: it is exactly D, the wrap happening only once the position
\* exceeds the duration.
C10_LoopPositionAtDuration ==
    \A id \in Played :
        (hAge[id].looping /\ hAge[id].calls = 2 * hAge[id].samples) =>
            /\ id \in Ids(instances)
            /\ InstanceOf(id).state = Playing
            /\ 0 <= InstanceOf(id).position
            /\ InstanceOf(id).position <= InstanceOf(id).duration
            /\ InstanceOf(id).position = InstanceOf(id).duration

\* a looping instance on a sound of N > 1 samples has been through 2N calls
C10_Witness ==
    \E id \in Played :
        /\ hAge[id].looping
        /\ hAge[id].samples > 1
        /\ hAge[id].calls = 2 * hAge[id].samples
        /\ id \in Ids(instances)
        /\ InstanceOf(id).state = Playing

----------------------------------------------------------------------------
(* SpecTrack: the effect slots of one mixer track (mixer/track/mod.rs) *)

\* Track::add_effect: IndexMap::insert of a freshly minted id appends the slot
AddEffect ==
    /\ nextEffectId < MaxEffectIds
    /\ nextEffectId' = nextEffectId + 1
    /\ effect_slots' = Append(effect_slots, nextEffectId + 1)
    /\ UNCHANGED hApplied

\* Track::remove_effect: IndexMap::remove, which is swap_remove
RemoveEffect(id) ==
    /\ effect_slots' = IF \E i \in DOMAIN effect_slots : effect_slots[i] = id
                       THEN SwapRemove(effect_slots,
                                       CHOOSE i \in DOMAIN effect_slots : effect_slots[i] = id)
                       ELSE effect_slots
    /\ UNCHANGED <<nextEffectId, hApplied>>

\* Track::process: the input goes through the slots in the map's iteration order
TrackProcess ==
    /\ hApplied' = effect_slots
    /\ UNCHANGED <<effect_slots, nextEffectId>>

NextTrack ==
    \/ AddEffect /\ UNCHANGED <<instVars, streamVars, histVars, restButTrack>>
    \/ (\E id \in 1..MaxEffectIds : RemoveEffect(id))
            /\ UNCHANGED <<instVars, streamVars, histVars, restButTrack>>
    \/ TrackProcess /\ UNCHANGED <<instVars, streamVars, histVars, restButTrack>>

SpecTrack == InitUnload /\ [][NextTrack]_vars

\* C11: Track::process applies the effect slots that remain in the order in which
\* they were added (ids are minted in increasing order, so in increasing id order),
\* also after other effects have been removed.
C11_EffectsInInsertionOrder ==
    \A i, j \in DOMAIN hApplied : i < j => hApplied[i] < hApplied[j]

----------------------------------------------------------------------------
(* Groups (group/set.rs) and the group commands of Instances::run_command *)

GroupIds == 1..MaxGroupIds

\* a slip: only the groups of the set itself are compared with the ancestor
has_ancestor_MembersOnly(set, ancestor, all_groups) ==
    ancestor \in DOMAIN all_groups /\ ancestor \in set

\* a slip: nobody makes sure that the ancestor group exists
RECURSIVE has_ancestor_Unchecked(_, _, _)
has_ancestor_Unchecked(set, ancestor, all_groups) ==
    IF ancestor \in set THEN TRUE
    ELSE \E id \in set :
            /\ id \in DOMAIN all_groups
            /\ has_ancestor_Unchecked(all_groups[id], ancestor, all_groups)

\* InternalGroupSet::has_ancestor
RECURSIVE has_ancestor(_, _, _)
has_ancestor(set, ancestor, all_groups) ==
    IF ancestor \notin DOMAIN all_groups THEN FALSE
    ELSE IF ancestor \in set THEN TRUE
    ELSE \E id \in set :
            /\ id \in DOMAIN all_groups
            /\ has_ancestor(all_groups[id], ancestor, all_groups)

\* Arrangement::is_in_group, for the playable of an instance that is still loaded
is_in_group(p, id) ==
    /\ p \in DOMAIN playables
    /\ playables[p].loaded
    /\ p \in DOMAIN playable_groups
    /\ has_ancestor(playable_groups[p], id, groups)

\* Instances::run_command, PauseGroup
PauseGroup(id, fade_tween) ==
    /\ ~hung
    /\ instances' = [i \in DOMAIN instances |->
            IF is_in_group(instances[i].playable, id)
            THEN pause(instances[i], fade_tween) ELSE instances[i]]
    /\ UNCHANGED <<playables, parameters, nextInstanceId, hung>>

\* Instances::run_command, ResumeGroup
ResumeGroup(id, fade_tween, rewind) ==
    /\ ~hung
    /\ instances' = [i \in DOMAIN instances |->
            IF is_in_group(instances[i].playable, id)
            THEN resume(instances[i], fade_tween, rewind) ELSE instances[i]]
    /\ UNCHANGED <<playables, parameters, nextInstanceId, hung>>

\* Instances::run_command, StopGroup
StopGroup(id, fade_tween) ==
    /\ ~hung
    /\ instances' = [i \in DOMAIN instances |->
            IF is_in_group(instances[i].playable, id)
            THEN stop(instances[i], fade_tween) ELSE instances[i]]
    /\ UNCHANGED <<playables, parameters, nextInstanceId, hung>>

\* the group tables add_group and remove_group can leave behind: a group's parents
\* were minted before it, and any of the groups may have been removed again
GroupTables ==
    UNION {{t \in [present -> SUBSET GroupIds] :
                \A g \in present : \A parent \in t[g] : parent < g}
           : present \in SUBSET GroupIds}

\* the groups reached from a set in n steps along the parent links of the groups
\* that are in the table
RECURSIVE Up(_, _)
Up(set, n) ==
    IF n = 0 THEN set
    ELSE Up(set \cup UNION {groups[g] : g \in set \cap DOMAIN groups}, n - 1)

\* the ancestor is in the table and a chain of parent links through groups of the
\* table leads from a group of the set to it
ChainTo(set, ancestor) == ancestor \in DOMAIN groups /\ ancestor \in Up(set, MaxGroupIds)

InitGroup ==
    /\ InitInstances
    /\ playables = [p \in {1} |-> Playable(1, None)]
    /\ parameters = <<>>
    /\ InitStreams
    /\ InitHist
    /\ InitTrack
    /\ InitMetronome
    /\ InitSequence
    /\ InitQueue
    /\ InitTwin
    /\ InitThread
    /\ InitFrame
    /\ groups \in GroupTables
    /\ nextGroupId = MaxGroupIds
    /\ playable_groups \in [{1} -> {{}, {MaxGroupIds}}]
    /\ hCommand = NoCommand

NextGroup ==
    \/ /\ nextInstanceId < MaxGroupPlays
       /\ Play(1, DefaultSettings, NoDraw)
       /\ hCommand' = NoCommand
       /\ UNCHANGED <<streamVars, histVars, restButGroup, groups, nextGroupId, playable_groups>>
    \/ /\ \E id \in GroupIds :
            /\ \E fade_tween \in {None} : PauseGroup(id, fade_tween)
            /\ hCommand' = [kind |-> "PauseGroup", id |-> id]
       /\ UNCHANGED <<streamVars, histVars, restButGroup, groups, nextGroupId, playable_groups>>
    \/ /\ \E id \in GroupIds :
            /\ \E fade_tween \in {None}, rewind \in BOOLEAN : ResumeGroup(id, fade_tween, rewind)
            /\ hCommand' = [kind |-> "ResumeGroup", id |-> id]
       /\ UNCHANGED <<streamVars, histVars, restButGroup, groups, nextGroupId, playable_groups>>
    \/ /\ \E id \in GroupIds :
            /\ \E fade_tween \in {None} : StopGroup(id, fade_tween)
            /\ hCommand' = [kind |-> "StopGroup", id |-> id]
       /\ UNCHANGED <<streamVars, histVars, restButGroup, groups, nextGroupId, playable_groups>>
    \/ /\ PositionsBounded
       /\ Process
       /\ hCommand' = NoCommand
       /\ UNCHANGED <<streamVars, histVars, restButGroup, groups, nextGroupId, playable_groups>>

SpecGroup == InitGroup /\ [][NextGroup]_vars

\* C12: a step that runs StopGroup(C), PauseGroup(C) or ResumeGroup(C) applies stop,
\* pause or resume, with the settings of the command, to every instance whose
\* playable's group set has a chain of parent links, of any length through groups
\* of the table, to the group C of the table.
C12_GroupCommandsReachDescendants ==
    [][\A i \in DOMAIN instances :
        ChainTo(playable_groups[instances[i].playable], hCommand'.id) =>
            \A fade_tween \in {None} :
                /\ (hCommand'.kind = "StopGroup" /\ StopGroup(hCommand'.id, fade_tween)) =>
                        instances'[i] = stop(instances[i], fade_tween)
                /\ (hCommand'.kind = "PauseGroup" /\ PauseGroup(hCommand'.id, fade_tween)) =>
                        instances'[i] = pause(instances[i], fade_tween)
                /\ \A rewind \in BOOLEAN :
                        ( /\ hCommand'.kind = "ResumeGroup"
                          /\ ResumeGroup(hCommand'.id, fade_tween, rewind) ) =>
                            instances'[i] = resume(instances[i], fade_tween, rewind)]_vars

\* a StopGroup(C) has just stopped an instance whose playable is in A only, where
\* A has the single parent B and B the single parent C
C12_Witness ==
    /\ hCommand.kind = "StopGroup"
    /\ \E i \in DOMAIN instances : \E a, b \in DOMAIN groups :
            /\ playable_groups[instances[i].playable] = {a}
            /\ groups[a] = {b}
            /\ groups[b] = {hCommand.id}
            /\ hCommand.id \in DOMAIN groups
            /\ instances[i].state \in {Stopped, Stopping}

----------------------------------------------------------------------------
(* SpecMetronome: one metronome (metronome/mod.rs) started and updated *)

\* a slip: the first update after the start is treated like any other
interval_passed_NoFirstBeat(m, interval) ==
    /\ m.ticking
    /\ (m.previous_time % interval) > (m.time % interval)

\* Metronome::interval_passed
interval_passed(m, interval) ==
    IF ~m.ticking THEN FALSE
    ELSE IF m.previous_time = 0 THEN TRUE
    ELSE (m.previous_time % interval) > (m.time % interval)

\* Metronome::start
MetronomeStart ==
    /\ metronome' = [metronome EXCEPT !.ticking = TRUE]
    /\ UNCHANGED <<events, hTicks>>

\* Metronome::pause
MetronomePause ==
    /\ metronome' = [metronome EXCEPT !.ticking = FALSE]
    /\ UNCHANGED <<events, hTicks>>

\* a slip: stop forgets to reset the time
MetronomeStop_KeepsTime ==
    /\ metronome' = [metronome EXCEPT !.ticking = FALSE]
    /\ UNCHANGED <<events, hTicks>>

\* Metronome::stop
MetronomeStop ==
    /\ metronome' = [metronome EXCEPT !.ticking = FALSE, !.time = 0, !.previous_time = 0]
    /\ UNCHANGED <<events, hTicks>>

\* the event channel after try_send(..).ok() of the intervals from index i on that
\* have passed
RECURSIVE EmitFrom(_, _, _)
EmitFrom(m, i, queue) ==
    IF i > Len(m.interval_events_to_emit) THEN queue
    ELSE EmitFrom(m, i + 1,
                  IF interval_passed(m, m.interval_events_to_emit[i])
                  THEN TrySend(queue, EventCapacity, m.interval_events_to_emit[i]).queue
                  ELSE queue)

\* the metronome after Metronome::update: the tempo is resolved, and a ticking
\* metronome moves on by the beats of one frame
MetronomeTicked(m, params) ==
    LET tempo == CachedValueUpdate(m.tempo, params)
    IN  IF m.ticking
        THEN [m EXCEPT !.tempo = tempo,
                       !.previous_time = m.time,
                       !.time = @ + CachedValueValue(tempo)]
        ELSE [m EXCEPT !.tempo = tempo]

\* Metronome::update
MetronomeUpdate ==
    LET m == MetronomeTicked(metronome, parameters)
    IN  /\ metronome' = m
        /\ events' = IF m.ticking THEN EmitFrom(m, 1, events) ELSE events
        /\ hTicks' = IF m.ticking THEN hTicks + 1 ELSE hTicks

\* the interval lists of a metronome: one interval, or two different ones
IntervalLists ==
    {<<i>> : i \in 1..MaxInterval}
        \cup {l \in (1..MaxInterval) \X (1..MaxInterval) : l[1] # l[2]}

InitMetronomeSpec ==
    /\ InitInstances
    /\ playables = <<>>
    /\ parameters = <<>>
    /\ InitStreams
    /\ InitHist
    /\ InitTrack
    /\ InitGroups
    /\ InitSequence
    /\ InitQueue
    /\ InitTwin
    /\ InitThread
    /\ InitFrame
    /\ \E tempo \in 1..MaxTempo, intervals \in IntervalLists :
            metronome = MetronomeNew(Fixed(tempo), intervals)
    /\ events = <<>>
    /\ hTicks = 0

NextMetronome ==
    \/ /\ MetronomeStart
       /\ UNCHANGED <<instVars, streamVars, histVars, restButMetronome>>
    \/ /\ metronome.time < MaxBeats
       /\ MetronomeUpdate
       /\ UNCHANGED <<instVars, streamVars, histVars, restButMetronome>>

SpecMetronome == InitMetronomeSpec /\ [][NextMetronome]_vars

\* the events in the channel for an entry of the interval list
Emitted(i) ==
    Cardinality({k \in DOMAIN events : events[k] = metronome.interval_events_to_emit[i]})

\* the beats elapsed since the start at the constant tempo: (T / 60) * elapsed time
Beats == hTicks * CachedValueValue(metronome.tempo)

----------------------------------------------------------------------------
(* Sequence instances: src/old/kira/src/sequence/instance.rs *)

\* longest step list
MaxSteps == 3
\* the Wait of the step lists, in frames
MaxWaitFrames == 2
\* the interval of the WaitForInterval steps, in beat units
MaxSeqInterval == 2
\* beats of the metronome a sequence is bound to in a run
MaxSeqBeats == 3
\* instance ids a sequence mints in a run
MaxSequenceIds == 6
\* capacity of the custom event channel
CustomEventCapacity == 2
\* sounds a PlayRandom step chooses from
MaxChoices == 2

\* SequenceOutputCommand::PlaySound
PlaySound(id, playable) == [kind |-> "PlaySound", id |-> id, playable |-> playable]

\* SequenceStep, one record shape for the five variants: value is the duration
\* of a Wait (time units), the interval of a WaitForInterval or the event of an
\* EmitCustomEvent; id is the embedded instance id; choices the sounds to play
Wait(duration) == [kind |-> "Wait", value |-> duration, id |-> 0, choices |-> <<>>]
\* a Wait whose duration is Duration::Beats: value is the beats, in beat units
WaitBeats(beats) == [kind |-> "WaitBeats", value |-> beats, id |-> 0, choices |-> <<>>]
WaitForInterval(interval) ==
    [kind |-> "WaitForInterval", value |-> interval, id |-> 0, choices |-> <<>>]
RunCommand(command) ==
    [kind |-> "RunCommand", value |-> 0, id |-> command.id, choices |-> <<command.playable>>]
PlayRandom(id, choices) == [kind |-> "PlayRandom", value |-> 0, id |-> id, choices |-> choices]
EmitCustomEvent(event) ==
    [kind |-> "EmitCustomEvent", value |-> event, id |-> 0, choices |-> <<>>]

\* the steps that embed an instance id
IdSteps(steps) == {i \in DOMAIN steps : steps[i].kind \in {"RunCommand", "PlayRandom"}}

\* RawSequence::update_instance_ids: every embedded instance id becomes a fresh
\* one, minted in step order from the counter next
update_instance_ids(raw, next) ==
    [raw EXCEPT !.steps =
        [i \in DOMAIN raw.steps |->
            IF i \in IdSteps(raw.steps)
            THEN [raw.steps[i] EXCEPT
                    !.id = next + Cardinality({j \in IdSteps(raw.steps) : j < i})]
            ELSE raw.steps[i]]]

\* start_step that finishes at the end of the steps whatever the loop point
start_step_NoLoop(s, index, next) ==
    IF index < Len(s.sequence.steps)
    THEN [s |-> [s EXCEPT !.position = index,
                          !.wait_timer =
                              IF s.sequence.steps[index + 1].kind \in {"Wait", "WaitBeats"}
                              THEN Some(s.sequence.steps[index + 1].value)
                              ELSE None],
          next |-> next]
    ELSE [s |-> [s EXCEPT !.state = "Finished"], next |-> next]

\* SequenceInstance::start_step. The wait timer is kept in time units: the
\* fraction of the source times the duration of the step, so that Some(1.0) is
\* Some(duration) and dt / duration is Dt. For a duration in beats it is kept in
\* beat units: Some(1.0) is Some(beats) and dt / duration is the beats of a frame
RECURSIVE start_step(_, _, _)
start_step(s, index, next) ==
    IF index < Len(s.sequence.steps)
    THEN [s |-> [s EXCEPT !.position = index,
                          !.wait_timer =
                              IF s.sequence.steps[index + 1].kind \in {"Wait", "WaitBeats"}
                              THEN Some(s.sequence.steps[index + 1].value)
                              ELSE None],
          next |-> next]
    ELSE IF s.sequence.loop_point # None
    THEN start_step([s EXCEPT !.sequence = update_instance_ids(@, next)],
                    s.sequence.loop_point[1],
                    next + Cardinality(IdSteps(s.sequence.steps)))
    ELSE [s |-> [s EXCEPT !.state = "Finished"], next |-> next]

\* a Wait whose timer reached time is over only below zero
Elapsed_Strict(time) == time < 0

\* the test that ends a Wait: *time <= 0.0
Elapsed(time) == time <= 0

\* the run after start_step(position + 1): r.s is the instance as the step left
\* it; the trace takes the index of every start_step call, the inner one included
Advanced(r) ==
    LET index == r.s.position + 1
        started == start_step(r.s, index, r.next)
    IN  [r EXCEPT !.s = started.s,
                  !.next = started.next,
                  !.trace = IF index >= Len(r.s.sequence.steps)
                                    /\ r.s.sequence.loop_point # None
                            THEN @ \o <<index, r.s.sequence.loop_point[1]>>
                            ELSE Append(@, index)]

\* a slip: the tempo of a metronome that does not tick
effective_tempo_Ticking(m) == CachedValueValue(m.tempo)

\* Metronome::effective_tempo, in beat units per frame
effective_tempo(m) == IF m.ticking THEN CachedValueValue(m.tempo) ELSE 0

\* a slip: a metronome that was removed is still found
BoundMetronome_KeepsRemoved(s, metronomes) ==
    IF s.metronome # None THEN Some(metronomes) ELSE None

\* self.metronome.map(|id| metronomes.get(id)).flatten(): the metronome the
\* instance is bound to, if it is bound to one and that one is in the map
BoundMetronome(s, metronomes) ==
    IF s.metronome # None /\ s.metronome[1] \in metronome_ids
    THEN Some(metronomes) ELSE None

\* Duration::in_seconds under dt / duration: the beats of one frame at the
\* effective tempo of the bound metronome, Tempo(0.0) without one
BeatsOfFrame(s, metronomes) ==
    LET bound == BoundMetronome(s, metronomes)
    IN  IF bound # None THEN effective_tempo(bound[1]) ELSE 0

\* a slip: a muted sequence pushes its output commands and events all the same
Dispatch_IgnoresMute(r, step, command) ==
    IF step.kind = "EmitCustomEvent"
    THEN [r EXCEPT !.ev = TrySend(@, CustomEventCapacity, step.value).queue]
    ELSE [r EXCEPT !.out = Append(@, command)]

\* a slip: the custom event of a step is never sent
Dispatch_NoEvent(r, step, command) ==
    IF r.s.muted \/ step.kind = "EmitCustomEvent" THEN r
    ELSE [r EXCEPT !.out = Append(@, command)]

\* the run after the push of a RunCommand, PlayRandom or EmitCustomEvent step:
\* nothing is pushed when muted, an event is dropped when its channel is full
Dispatch(r, step, command) ==
    IF r.s.muted THEN r
    ELSE IF step.kind = "EmitCustomEvent"
    THEN [r EXCEPT !.ev = TrySend(@, CustomEventCapacity, step.value).queue]
    ELSE [r EXCEPT !.out = Append(@, command)]

\* the loop of SequenceInstance::update. r is the run so far: the instance s,
\* the id counter next, the output commands out, the event channel ev, the
\* indices trace (the position at the call, then those of start_step), the zero-duration steps dispatched n. A call that dispatches
\* more zero-duration steps than there are steps is at a position it was at
\* before with no break in between, and the loop never ends: hung
RECURSIVE Run(_, _, _)
Run(r, metronomes, rng) ==
    LET s == r.s
        steps == s.sequence.steps
    IN  IF s.state # "Playing" THEN r
        ELSE IF s.position >= Len(steps) THEN [r EXCEPT !.hung = TRUE]
        ELSE
            LET step == steps[s.position + 1]
            IN  CASE step.kind = "Wait" ->
                        IF s.wait_timer = None THEN [r EXCEPT !.hung = TRUE]
                        ELSE LET time == s.wait_timer[1] - Dt
                                 waited == [r EXCEPT !.s.wait_timer = Some(time)]
                             IN  IF Elapsed(time) THEN Advanced(waited) ELSE waited
                  [] step.kind = "WaitBeats" ->
                        IF s.wait_timer = None THEN [r EXCEPT !.hung = TRUE]
                        ELSE LET time == s.wait_timer[1] - BeatsOfFrame(s, metronomes)
                                 waited == [r EXCEPT !.s.wait_timer = Some(time)]
                             IN  IF Elapsed(time) THEN Advanced(waited) ELSE waited
                  [] step.kind = "WaitForInterval" ->
                        LET bound == BoundMetronome(s, metronomes)
                        IN  IF bound # None /\ interval_passed(bound[1], step.value)
                            THEN Advanced(r)
                            ELSE r
                  [] OTHER ->
                        IF r.n >= Len(steps) THEN [r EXCEPT !.hung = TRUE, !.n = @ + 1]
                        ELSE
                            LET command ==
                                    IF step.kind = "RunCommand"
                                    THEN PlaySound(step.id, step.choices[1])
                                    ELSE PlaySound(step.id,
                                            step.choices[(rng[r.n + 1] % Len(step.choices)) + 1])
                                pushed == Dispatch(r, step, command)
                            IN  Run(Advanced([pushed EXCEPT !.n = @ + 1]), metronomes, rng)

\* the draws of tls_rng() in one update call, one per zero-duration step
Draws == [1..MaxSteps -> 0..(MaxChoices - 1)]

\* SequenceInstance::update
SequenceUpdate(metronomes, rng) ==
    LET r == Run([s |-> sequence, next |-> nextSequenceInstanceId, out |-> <<>>,
                  ev |-> custom_events,
                  trace |-> IF sequence.state = "Playing"
                            THEN <<sequence.position>> ELSE <<>>,
                  n |-> 0, hung |-> FALSE],
                 metronomes, rng)
    IN  /\ ~hung
        /\ sequence' = r.s
        /\ nextSequenceInstanceId' = r.next
        /\ output_command_queue' = r.out
        /\ custom_events' = r.ev
        /\ hung' = r.hung
        /\ hPushed' = hPushed \o r.out
        /\ hTrace' = r.trace
        /\ hDispatched' = r.n
        /\ UNCHANGED <<hStarted, hControlled>>

\* SequenceInstance::start
SequenceStart ==
    LET started == start_step(sequence, 0, nextSequenceInstanceId)
    IN  /\ ~hung
        /\ sequence' = started.s
        /\ nextSequenceInstanceId' = started.next
        /\ hStarted' = TRUE
        /\ UNCHANGED <<output_command_queue, custom_events, hUpdates, hControlled,
                       hPushed, hTrace, hDispatched>>

\* a slip: resume starts the sequence over
SequenceResume_Restarts ==
    /\ ~hung
    /\ sequence' = [sequence EXCEPT !.state = "Playing", !.position = 0, !.wait_timer = None]
    /\ hControlled' = TRUE
    /\ UNCHANGED <<nextSequenceInstanceId, output_command_queue, custom_events,
                   hStarted, hUpdates, hPushed, hTrace, hDispatched>>

\* SequenceInstance::mute, unmute, pause, resume, stop
SequenceMute ==
    /\ ~hung
    /\ sequence' = [sequence EXCEPT !.muted = TRUE]
    /\ hControlled' = TRUE
    /\ UNCHANGED <<nextSequenceInstanceId, output_command_queue, custom_events,
                   hStarted, hUpdates, hPushed, hTrace, hDispatched>>

SequenceUnmute ==
    /\ ~hung
    /\ sequence' = [sequence EXCEPT !.muted = FALSE]
    /\ hControlled' = TRUE
    /\ UNCHANGED <<nextSequenceInstanceId, output_command_queue, custom_events,
                   hStarted, hUpdates, hPushed, hTrace, hDispatched>>

SequencePause ==
    /\ ~hung
    /\ sequence' = [sequence EXCEPT !.state = "Paused"]
    /\ hControlled' = TRUE
    /\ UNCHANGED <<nextSequenceInstanceId, output_command_queue, custom_events,
                   hStarted, hUpdates, hPushed, hTrace, hDispatched>>

SequenceResume ==
    /\ ~hung
    /\ sequence' = [sequence EXCEPT !.state = "Playing"]
    /\ hControlled' = TRUE
    /\ UNCHANGED <<nextSequenceInstanceId, output_command_queue, custom_events,
                   hStarted, hUpdates, hPushed, hTrace, hDispatched>>

SequenceStop ==
    /\ ~hung
    /\ sequence' = [sequence EXCEPT !.state = "Finished"]
    /\ hControlled' = TRUE
    /\ UNCHANGED <<nextSequenceInstanceId, output_command_queue, custom_events,
                   hStarted, hUpdates, hPushed, hTrace, hDispatched>>

\* the rest of the engine during the steps of a sequence
SequenceFrame == UNCHANGED <<instances, playables, parameters, nextInstanceId,
                             streamVars, histVars, restButSequence>>


----------------------------------------------------------------------------
(* SpecSequenceScenario: the sequence [Wait(w), RunCommand(Play), Wait(w)]
   looping to step 0, started once, updated frame after frame, and muted,
   unmuted, paused, resumed or stopped at any time *)

\* longest wait of the scenario, in frames
MaxScenarioFrames == 5
\* update calls of a run
MaxSeqUpdates == 24

\* the steps of the scenario for a wait of n frames
ScenarioSteps(n) == <<Wait(n * Dt), RunCommand(PlaySound(1, 1)), Wait(n * Dt)>>

InitSequenceScenario ==
    /\ InitInstances
    /\ playables = <<>>
    /\ parameters = <<>>
    /\ InitStreams
    /\ InitHist
    /\ InitTrack
    /\ InitGroups
    /\ InitMetronome
    /\ InitQueue
    /\ InitTwin
    /\ InitThread
    /\ InitFrame
    /\ \E n \in 1..MaxScenarioFrames :
            sequence = SequenceInstanceNew(
                            [steps |-> ScenarioSteps(n), loop_point |-> Some(0)], None)
    /\ nextSequenceInstanceId = 2
    /\ InitSequenceHist

NextSequenceScenario ==
    \/ /\ ~hStarted
       /\ SequenceStart
       /\ UNCHANGED <<hung, metronomeVars>>
       /\ SequenceFrame
    \/ /\ hStarted
       /\ hUpdates < MaxSeqUpdates
       /\ \E rng \in {[i \in 1..MaxSteps |-> 0]} : SequenceUpdate(metronome, rng)
       /\ hUpdates' = hUpdates + 1
       /\ UNCHANGED metronomeVars
       /\ SequenceFrame
    \/ /\ SequenceMute
       /\ UNCHANGED <<hung, metronomeVars>>
       /\ SequenceFrame
    \/ /\ SequenceUnmute
       /\ UNCHANGED <<hung, metronomeVars>>
       /\ SequenceFrame
    \/ /\ SequencePause
       /\ UNCHANGED <<hung, metronomeVars>>
       /\ SequenceFrame
    \/ /\ SequenceResume
       /\ UNCHANGED <<hung, metronomeVars>>
       /\ SequenceFrame
    \/ /\ SequenceStop
       /\ UNCHANGED <<hung, metronomeVars>>
       /\ SequenceFrame

SpecSequenceScenario == InitSequenceScenario /\ [][NextSequenceScenario]_vars

\* the wait of the scenario, in frames
ScenarioFrames == sequence.sequence.steps[1].value \div Dt

\* C14: a started sequence [Wait(w), RunCommand(Play), Wait(w)] with loop_point 0
\* and w = n frames, left to play, has pushed exactly j Play output commands after 2*j*n update
\* calls, for every j >= 1
C14_PlaysPerPeriod ==
    ( /\ hStarted
      /\ ~hControlled
      /\ ~hung
      /\ hUpdates >= 1
      /\ hUpdates % (2 * ScenarioFrames) = 0 ) =>
        /\ Len(hPushed) = hUpdates \div (2 * ScenarioFrames)
        /\ \A i \in DOMAIN hPushed : hPushed[i].kind = "PlaySound"

\* the third period of a wait of more than one frame is over: three plays
C14_Witness ==
    /\ hStarted
    /\ ~hControlled
    /\ ScenarioFrames > 1
    /\ hUpdates = 3 * 2 * ScenarioFrames
    /\ Len(hPushed) = 3


----------------------------------------------------------------------------
(* SpecSequence: one sequence instance of any accepted step list, bound to the
   metronome or to none, started once and updated frame after frame *)

\* the steps a step list is made of, their instance ids not yet minted
StepAlphabet ==
    {Wait(MaxWaitFrames * Dt), WaitForInterval(MaxSeqInterval)}
        \cup {RunCommand(PlaySound(0, 1)),
              PlayRandom(0, [c \in 1..MaxChoices |-> c]),
              EmitCustomEvent(1)}

\* the step lists
StepLists == UNION {[1..n -> StepAlphabet] : n \in 0..MaxSteps}

\* the sequences validation accepts: a loop point, if any, is a step of the list
ValidSequences ==
    {[steps |-> steps, loop_point |-> loop_point] :
        steps \in StepLists,
        loop_point \in {None} \cup {Some(k) : k \in 0..(MaxSteps - 1)}}
    \ {raw \in [steps : StepLists,
                loop_point : {Some(k) : k \in 0..(MaxSteps - 1)}] :
            raw.loop_point[1] >= Len(raw.steps)}

InitSequenceSpec ==
    /\ InitInstances
    /\ playables = <<>>
    /\ parameters = <<>>
    /\ InitStreams
    /\ InitHist
    /\ InitTrack
    /\ InitGroups
    /\ InitQueue
    /\ InitTwin
    /\ InitThread
    /\ InitFrame
    /\ metronome = MetronomeNew(Fixed(1), <<>>)
    /\ events = <<>>
    /\ hTicks = 0
    /\ \E raw \in ValidSequences, metronome_id \in {None, Some(1)} :
            /\ sequence = SequenceInstanceNew(update_instance_ids(raw, 1), metronome_id)
            /\ nextSequenceInstanceId = 1 + Cardinality(IdSteps(raw.steps))
    /\ InitSequenceHist

NextSequence ==
    \/ /\ ~hStarted
       /\ SequenceStart
       /\ UNCHANGED <<hung, metronomeVars>>
       /\ SequenceFrame
    \/ /\ hStarted
       /\ nextSequenceInstanceId <= MaxSequenceIds
       /\ metronome.time < MaxSeqBeats
       /\ MetronomeUpdate
       /\ \E rng \in Draws : SequenceUpdate(metronome', rng)
       /\ UNCHANGED hUpdates
       /\ SequenceFrame
    \/ /\ MetronomeStart
       /\ UNCHANGED <<hung, sequenceVars>>
       /\ SequenceFrame

SpecSequence == InitSequenceSpec /\ [][NextSequence]_vars


\* the ids of the instances the sequence has played differ pairwise
FreshIds == \A i, j \in DOMAIN hPushed : i < j => hPushed[i].id # hPushed[j].id

\* the last update call ran past the last step at place i of its trace
PastLast(i) == i \in DOMAIN hTrace /\ i > 1 /\ hTrace[i] >= Len(sequence.sequence.steps)

\* C15: an update of a Playing sequence with loop_point = k that advances past
\* the last step continues at step k and leaves the sequence Playing, and the
\* instance ids of its plays differ from those of every earlier iteration; an
\* update that advances a sequence without loop_point past its last step leaves
\* it Finished
C15_LoopContinuesAtLoopPoint ==
    [][(\E rng \in Draws : SequenceUpdate(metronome', rng)) =>
        /\ (sequence.state = "Playing" /\ sequence.sequence.loop_point # None) =>
                sequence'.state = "Playing"
        /\ \A i \in DOMAIN hTrace' :
                (i > 1 /\ hTrace'[i] >= Len(sequence.sequence.steps)) =>
                    IF sequence.sequence.loop_point # None
                    THEN /\ i < Len(hTrace')
                         /\ hTrace'[i + 1] = sequence.sequence.loop_point[1]
                    ELSE /\ i = Len(hTrace')
                         /\ sequence'.state = "Finished"
        /\ sequence.sequence.loop_point # None =>
                \A i, j \in DOMAIN hPushed' : i < j => hPushed'[i].id # hPushed'[j].id]_vars

\* the last update ran past the last step and went on at loop point 1, and the
\* sequence has played in more than one iteration
C15_Witness ==
    /\ ~hung
    /\ sequence.sequence.loop_point = Some(1)
    /\ sequence.state = "Playing"
    /\ \E i \in DOMAIN hTrace : PastLast(i) /\ i < Len(hTrace) /\ hTrace[i + 1] = 1
    /\ Len(hPushed) >= 3
    /\ FreshIds

\* C16: every update call of a sequence returns, having dispatched at most
\* steps.len() zero-duration steps
C16_UpdateIsBounded ==
    ~hung /\ hDispatched <= Len(sequence.sequence.steps)


----------------------------------------------------------------------------
(* SpecQueue: the command channel between the control side (the manager and the
   handles that hold clones of its CommandSender) and the audio side, which
   drains it at the start of every frame *)

\* largest num_commands
MaxNumCommands == 3
\* pushes of a run
MaxCommands == 5
\* the manager and one handle, each with its CommandSender
Producers == {"manager", "handle"}

\* a push that makes room by dropping the oldest command of a full channel
CommandPush_Overwrite(queue, capacity, command) ==
    IF Len(queue) < capacity THEN [queue |-> Append(queue, command), sent |-> TRUE]
    ELSE IF queue = <<>> THEN [queue |-> queue, sent |-> FALSE]
    ELSE [queue |-> Append(Tail(queue), command), sent |-> TRUE]

\* CommandSender::push: try_send on the bounded channel, an error
\* (CommandQueueFull) when the channel is full
CommandPush(queue, capacity, command) == TrySend(queue, capacity, command)

\* a push of a command by a producer, as add_sound does
Push(producer) ==
    LET command == [producer |-> producer, n |-> nextCommandId]
        pushed == CommandPush(command_queue, num_commands, command)
    IN  /\ command_queue' = pushed.queue
        /\ nextCommandId' = nextCommandId + 1
        /\ hSent' = IF pushed.sent THEN Append(hSent, command) ELSE hSent
        /\ hResult' = IF pushed.sent THEN "Ok" ELSE "CommandQueueFull"
        /\ UNCHANGED <<num_commands, draining, hReceived>>

\* the audio side begins the drain of a frame: up to num_commands commands
DrainBegin ==
    /\ draining = 0
    /\ draining' = num_commands
    /\ UNCHANGED <<num_commands, command_queue, nextCommandId, hSent, hReceived, hResult>>

\* the audio side receives one command, or finds the channel empty and ends the drain
DrainStep ==
    /\ draining > 0
    /\ IF command_queue = <<>>
       THEN /\ draining' = 0
            /\ UNCHANGED <<command_queue, hReceived>>
       ELSE /\ draining' = draining - 1
            /\ command_queue' = Tail(command_queue)
            /\ hReceived' = Append(hReceived, Head(command_queue))
    /\ UNCHANGED <<num_commands, nextCommandId, hSent, hResult>>

InitQueueSpec ==
    /\ InitInstances
    /\ playables = <<>>
    /\ parameters = <<>>
    /\ InitStreams
    /\ InitHist
    /\ InitTrack
    /\ InitGroups
    /\ InitMetronome
    /\ InitSequence
    /\ InitTwin
    /\ InitThread
    /\ InitFrame
    /\ \E capacity \in 0..MaxNumCommands : InitQueueOf(capacity)

NextQueue ==
    \/ /\ nextCommandId < MaxCommands
       /\ \E producer \in Producers : Push(producer)
       /\ UNCHANGED <<instVars, streamVars, histVars, restButQueue>>
    \/ /\ DrainBegin
       /\ UNCHANGED <<instVars, streamVars, histVars, restButQueue>>
    \/ /\ DrainStep
       /\ UNCHANGED <<instVars, streamVars, histVars, restButQueue>>

SpecQueue == InitQueueSpec /\ [][NextQueue]_vars

\* the commands the audio side has received, then those still in the channel
Delivered == hReceived \o command_queue

\* C18: the audio side receives the commands in exactly the order pushed, none
\* lost or duplicated, however pushes and receives interleave: what it has
\* received followed by what is in the channel is, in push order, every command
\* whose push returned Ok; a push onto a channel holding num_commands commands
\* returns CommandQueueFull and leaves the channel as it was, any other push
\* returns Ok and puts its command last
C18_CommandsInOrder ==
    [][ /\ hReceived' \o command_queue' = hSent'
        /\ \A i, j \in DOMAIN hSent' : i < j => hSent'[i].n < hSent'[j].n
        /\ IF nextCommandId' # nextCommandId
           THEN /\ hReceived' = hReceived
                /\ IF Len(command_queue) >= num_commands
                   THEN /\ hResult' = "CommandQueueFull"
                        /\ command_queue' = command_queue
                   ELSE /\ hResult' = "Ok"
                        /\ \E producer \in Producers :
                                command_queue' = Append(command_queue,
                                    [producer |-> producer, n |-> nextCommandId])
           ELSE hReceived' \o command_queue' = Delivered
      ]_vars

\* a push found the channel full in the middle of a drain that has already
\* received commands of both producers
C18_Witness ==
    /\ hResult = "CommandQueueFull"
    /\ draining > 0
    /\ command_queue # <<>>
    /\ \A producer \in Producers : \E i \in DOMAIN hReceived : hReceived[i].producer = producer


----------------------------------------------------------------------------
(* SpecFade: one instance at a time of a sound that is long enough to fade on,
   paused, resumed and stopped with fade tweens of one frame and more *)

\* samples of the sound
MaxFadeSamples == 5
\* longest fade tween, in frames
MaxFadeFrames == 3

\* no fade, or a fade of a number of frames
FadeTweens == {None} \cup {Some(n * Dt) : n \in 1..MaxFadeFrames}

InitFade ==
    /\ InitInstances
    /\ playables = [p \in {1} |-> Playable(MaxFadeSamples, None)]
    /\ parameters = <<>>
    /\ InitStreams
    /\ InitRest
    /\ InitHist

NextFade ==
    \/ /\ instances = <<>>
       /\ nextInstanceId < MaxInstanceIds
       /\ Play(1, DefaultSettings, NoDraw)
       /\ UNCHANGED <<restVars, streamVars, histVars>>
    \/ /\ \E id \in InstanceIds, t \in FadeTweens : PauseInstance(id, t)
       /\ UNCHANGED <<restVars, streamVars, histVars>>
    \/ /\ \E id \in InstanceIds, t \in FadeTweens, r \in BOOLEAN : ResumeInstance(id, t, r)
       /\ UNCHANGED <<restVars, streamVars, histVars>>
    \/ /\ \E id \in InstanceIds, t \in FadeTweens : StopInstance(id, t)
       /\ UNCHANGED <<restVars, streamVars, histVars>>
    \/ /\ PositionsBounded
       /\ Process
       /\ UNCHANGED <<restVars, streamVars, histVars>>

SpecFade == InitFade /\ [][NextFade]_vars

\* the fade tween of the instance reports finished in the next update
FadeEnds(inst) ==
    /\ IsSome(inst.fade_volume.tween)
    /\ Unwrap(inst.fade_volume.tween).time + Dt >= Unwrap(inst.fade_volume.tween).duration

\* the next update moves the instance past the end of its sound
ReachesEnd(inst) == playing(inst) /\ inst.position + Dt > inst.duration

\* the state in instances' of the instance with the id, Stopped if it is gone
StateAfter(id) ==
    IF id \in Ids(instances') THEN instances'[IndexOf(instances', id)].state ELSE Stopped

\* C19: a pause with a fade tween at position p makes a Playing instance
\* Pausing(p); an update of a Pausing(p) instance that does not reach its end
\* leaves it Pausing(p), except the update in which the fade tween reports
\* finished, which makes it Paused(p); a Paused instance adds no sample; an update
\* of a Stopping instance makes it Stopped when the fade finishes; a finished
\* fade changes the state of no other instance
C19_FadeEndsInPausedOrStopped ==
    [][ /\ \A id \in InstanceIds, t \in FadeTweens :
                (IsSome(t) /\ PauseInstance(id, t)) =>
                    \A i \in DOMAIN instances :
                        (instances[i].id = id /\ instances[i].state = Playing) =>
                            instances'[i].state = Pausing(instances[i].position)
        /\ Process =>
                \A i \in DOMAIN instances :
                    LET inst == instances[i]
                    IN  (~finished(inst) /\ ~ReachesEnd(inst)) =>
                            /\ inst.id \in Ids(instances')
                            /\ StateAfter(inst.id) =
                                    CASE inst.state.tag = "Pausing" ->
                                            IF FadeEnds(inst) THEN Paused(inst.state.pos)
                                            ELSE Pausing(inst.state.pos)
                                      [] inst.state.tag = "Stopping" ->
                                            IF FadeEnds(inst) THEN Stopped ELSE Stopping
                                      [] OTHER -> inst.state
                            /\ inst.state.tag = "Paused" => inst.id \notin Contributors
      ]_vars

\* an instance paused with a fade of more than one frame at a position past the
\* start has played on during the fade and is Paused at the pause position
C19_Witness ==
    \E i \in DOMAIN instances :
        /\ instances[i].state.tag = "Paused"
        /\ instances[i].state.pos > 0
        /\ instances[i].position >= instances[i].state.pos + 2 * Dt
        /\ instances[i].fade_volume.value = 0


----------------------------------------------------------------------------
(* SpecTwin: two engines, each a metronome, a sequence bound to it and the
   instances the sequence plays, constructed from the same sequence and fed the
   same commands at the same frames. The first engine is the variables of the
   model, the second the record twin. The engines are in one process, where the
   id counters are the same statics, or in two *)

\* longest step list of the sequence of the two engines
MaxTwinSteps == 2

\* the id counter the second engine starts from however the engines are run
TwinFirstId_Continued(same_process, next) == next

\* the id counter the second engine starts from: the static counter goes on
\* counting in one process, and starts anew in another
TwinFirstId(same_process, next) == IF same_process THEN next ELSE 1

\* the draws of tls_rng() in one update call of a sequence of the two engines
TwinDraws == [1..MaxTwinSteps -> 0..(MaxChoices - 1)]

\* the fields of an engine that are its state and its output
EngineFields == {"metronome", "events", "sequence", "out", "custom_events", "instances"}

\* the first engine
EngineOne ==
    [metronome |-> metronome, events |-> events, sequence |-> sequence,
     out |-> output_command_queue, custom_events |-> custom_events,
     instances |-> instances]

\* the second engine
EngineTwo == [f \in EngineFields |-> twin[1][f]]

\* the instances after the Play commands of the output commands from index i on
RECURSIVE PlayAll(_, _, _)
PlayAll(map, out, i) ==
    IF i > Len(out) THEN map
    ELSE LET p == out[i].playable
             inst == InstanceNew(out[i].id, p, playables[p], DefaultSettings, NoDraw)
         IN  PlayAll(IF playables[p].loaded /\ ~cooling_down(playables[p])
                     THEN Inserted(map, inst) ELSE map,
                     out, i + 1)

\* one frame of an engine e whose id counter is at next: the metronome, then the
\* sequence, whose output commands are run at once, then the instances
EngineFrame(e, next, rng) ==
    LET m == MetronomeTicked(e.metronome, parameters)
        r == Run([s |-> e.sequence, next |-> next, out |-> <<>>, ev |-> e.custom_events,
                  trace |-> <<>>, n |-> 0, hung |-> FALSE], m, rng)
    IN  [metronome |-> m,
         events |-> IF m.ticking THEN EmitFrom(m, 1, e.events) ELSE e.events,
         sequence |-> r.s,
         out |-> r.out,
         custom_events |-> r.ev,
         instances |-> Processed(PlayAll(e.instances, r.out, 1), parameters),
         next |-> r.next,
         hung |-> r.hung]

\* the variables of the first engine and the twin after a step that leaves the
\* engines as one and two, the id counters at next_one and next_two
TwinStep(one, two, next_one, next_two) ==
    /\ metronome' = one.metronome
    /\ events' = one.events
    /\ sequence' = one.sequence
    /\ output_command_queue' = one.out
    /\ custom_events' = one.custom_events
    /\ instances' = one.instances
    /\ nextSequenceInstanceId' = next_one
    /\ twin' = Some([f \in EngineFields |-> two[f]]
                        @@ [next |-> next_two, same_process |-> twin[1].same_process])

\* both engines run a frame. In one process the id counter is shared, and either
\* engine may be the first to mint from it
TwinFrame ==
    /\ ~hung
    /\ \E rng_one \in TwinDraws, rng_two \in TwinDraws :
        IF ~twin[1].same_process
        THEN LET one == EngineFrame(EngineOne, nextSequenceInstanceId, rng_one)
                 two == EngineFrame(EngineTwo, twin[1].next, rng_two)
             IN  /\ TwinStep(one, two, one.next, two.next)
                 /\ hung' = (one.hung \/ two.hung)
        ELSE \E one_first \in BOOLEAN :
                IF one_first
                THEN LET one == EngineFrame(EngineOne, nextSequenceInstanceId, rng_one)
                         two == EngineFrame(EngineTwo, one.next, rng_two)
                     IN  /\ TwinStep(one, two, two.next, two.next)
                         /\ hung' = (one.hung \/ two.hung)
                ELSE LET two == EngineFrame(EngineTwo, nextSequenceInstanceId, rng_two)
                         one == EngineFrame(EngineOne, two.next, rng_one)
                     IN  /\ TwinStep(one, two, one.next, one.next)
                         /\ hung' = (one.hung \/ two.hung)
    /\ UNCHANGED <<playables, parameters, nextInstanceId, hTicks, hStarted, hUpdates,
                   hControlled, hPushed, hTrace, hDispatched>>

\* a command that both engines receive: one_sequence and two_sequence are the
\* sequence instances it leaves, tick whether it starts the metronome
TwinCommand(one_sequence, two_sequence, tick) ==
    /\ ~hung
    /\ TwinStep([EngineOne EXCEPT !.sequence = one_sequence,
                                  !.metronome.ticking = @ \/ tick],
                [EngineTwo EXCEPT !.sequence = two_sequence,
                                  !.metronome.ticking = @ \/ tick],
                nextSequenceInstanceId, twin[1].next)
    /\ UNCHANGED <<playables, parameters, nextInstanceId, hung, hTicks, hUpdates,
                   hControlled, hPushed, hTrace, hDispatched>>

\* the sequences of both engines are started
TwinStart ==
    /\ ~hStarted
    /\ hStarted' = TRUE
    /\ TwinCommand(start_step(sequence, 0, nextSequenceInstanceId).s,
                   start_step(twin[1].sequence, 0, twin[1].next).s, FALSE)

\* the metronomes of both engines are started
TwinMetronomeStart ==
    /\ TwinCommand(sequence, twin[1].sequence, TRUE)
    /\ UNCHANGED hStarted

\* the sequences of both engines are muted
TwinMute ==
    /\ TwinCommand([sequence EXCEPT !.muted = TRUE],
                   [twin[1].sequence EXCEPT !.muted = TRUE], FALSE)
    /\ UNCHANGED hStarted

\* the sequences of both engines are unmuted
TwinUnmute ==
    /\ TwinCommand([sequence EXCEPT !.muted = FALSE],
                   [twin[1].sequence EXCEPT !.muted = FALSE], FALSE)
    /\ UNCHANGED hStarted

\* the step lists of the two engines
TwinSequences == {raw \in ValidSequences : Len(raw.steps) <= MaxTwinSteps}

InitTwinSpec ==
    /\ InitInstances
    /\ playables = [p \in 1..MaxChoices |-> Playable(p, None)]
    /\ parameters = <<>>
    /\ InitStreams
    /\ InitHist
    /\ InitTrack
    /\ InitGroups
    /\ InitQueue
    /\ InitThread
    /\ InitFrame
    /\ InitSequenceHist
    /\ hTicks = 0
    /\ events = <<>>
    /\ metronome = MetronomeNew(Fixed(1), <<MaxSeqInterval>>)
    /\ \E raw \in TwinSequences, metronome_id \in {None, Some(1)}, same_process \in BOOLEAN :
        LET minted == Cardinality(IdSteps(raw.steps))
            first == TwinFirstId(same_process, 1 + minted)
        IN  /\ sequence = SequenceInstanceNew(update_instance_ids(raw, 1), metronome_id)
            /\ twin = Some([metronome |-> MetronomeNew(Fixed(1), <<MaxSeqInterval>>),
                            events |-> <<>>,
                            sequence |-> SequenceInstanceNew(
                                            update_instance_ids(raw, first), metronome_id),
                            out |-> <<>>,
                            custom_events |-> <<>>,
                            instances |-> <<>>,
                            next |-> first + minted,
                            same_process |-> same_process])
            /\ nextSequenceInstanceId = IF same_process THEN first + minted ELSE 1 + minted

NextTwin ==
    \/ /\ TwinStart
       /\ UNCHANGED <<streamVars, histVars, restButTwin>>
    \/ /\ TwinMetronomeStart
       /\ UNCHANGED <<streamVars, histVars, restButTwin>>
    \/ /\ TwinMute
       /\ UNCHANGED <<streamVars, histVars, restButTwin>>
    \/ /\ TwinUnmute
       /\ UNCHANGED <<streamVars, histVars, restButTwin>>
    \/ /\ hStarted
       /\ nextSequenceInstanceId <= MaxSequenceIds
       /\ twin[1].next <= MaxSequenceIds
       /\ metronome.time < MaxSeqBeats
       /\ TwinFrame
       /\ UNCHANGED <<streamVars, histVars, restButTwin>>

SpecTwin == InitTwinSpec /\ [][NextTwin]_vars

\* the sequence has a PlayRandom step that chooses among several sounds
RandomChoice ==
    \E i \in DOMAIN sequence.sequence.steps :
        /\ sequence.sequence.steps[i].kind = "PlayRandom"
        /\ Len(sequence.sequence.steps[i].choices) > 1

----------------------------------------------------------------------------
(* SpecStreams: audio streams added to and removed from the store of Streams *)

\* AudioManagerSettings.num_streams, the capacity Streams::new is given
NumStreams == 2
\* how many streams the control side registers in a run
MaxStreamAdds == 5

\* IndexMap::insert: a present key keeps its place, a new one is appended; the map
\* grows when it is at the capacity it was created with
IndexMapInsert(map, id) ==
    IF \E i \in DOMAIN map : map[i] = id THEN map ELSE Append(map, id)

\* Streams::run_command, StreamCommand::AddStream, of a stream id the control side
\* has just minted
StreamsAddStream ==
    /\ nextStreamId < MaxStreamAdds
    /\ nextStreamId' = nextStreamId + 1
    /\ streams' = IndexMapInsert(streams, nextStreamId + 1)
    /\ UNCHANGED <<unloader, freed, audioDropped>>

NextStreams ==
    \/ StreamsAddStream /\ UNCHANGED <<instVars, histVars, restVars>>
    \/ (\E id \in 1..MaxStreamAdds : RemoveStream(id)) /\ UNCHANGED <<instVars, histVars, restVars>>
    \/ FreeUnusedResources /\ UNCHANGED <<instVars, histVars, restVars>>

SpecStreams == InitUnload /\ [][NextStreams]_vars

\* C21: the store never holds more than num_streams streams: an AddStream command
\* that finds num_streams streams in the store leaves the store as it was.
C21_StreamsWithinCapacity ==
    /\ Len(streams) <= NumStreams
    /\ [][(nextStreamId' # nextStreamId /\ Len(streams) >= NumStreams)
            => streams' = streams]_vars

----------------------------------------------------------------------------
(* SpecCooldownEnds: Play and process on one sound with any cooldown up to MaxCooldown *)

InitCooldownEnds ==
    /\ InitInstances
    /\ playables \in [{1} -> {Playable(1, c) : c \in Cooldowns}]
    /\ parameters = <<>>
    /\ InitStreams
    /\ InitRest
    /\ hAge = <<>>
    /\ hSince = [p \in {1} |-> -1]
    /\ hPending = {}
    /\ hMixed = {}
    /\ hEvicted = {}

SpecCooldownEnds == InitCooldownEnds /\ [][NextCooldown]_vars

\* the time update_cooldown has had to count down since the last accepted Play of
\* the playable covers its cooldown
CooldownOver(p) ==
    /\ hSince[p] >= 0
    /\ IsSome(playables[p].cooldown)
    /\ hSince[p] * Dt >= Unwrap(playables[p].cooldown)

\* C22: once the frames since an accepted Play of a playable with cooldown C add up
\* to at least C, the playable is not cooling down and the next Play of it is
\* accepted; a playable without a cooldown is never cooling down and every Play of
\* it is accepted.
C22_CooldownEnds ==
    /\ \A p \in DOMAIN playables :
            (CooldownOver(p) \/ playables[p].cooldown = None) => ~cooling_down(playables[p])
    /\ [][(nextInstanceId' # nextInstanceId
            /\ (CooldownOver(1) \/ playables[1].cooldown = None)) => Accepted]_vars

\* a Play of a sound whose cooldown is longer than a frame has just been accepted
\* in the first frame in which the cooldown was over
C22_Witness ==
    /\ IsSome(playables[1].cooldown)
    /\ Unwrap(playables[1].cooldown) > Dt
    /\ hSince[1] = 0
    /\ Len(instances) = 2
    /\ instances[2].position = 0
    /\ instances[1].position >= Unwrap(playables[1].cooldown)
    /\ instances[1].position - Dt < Unwrap(playables[1].cooldown)

----------------------------------------------------------------------------
(* SpecThread: the life of an AudioManager (manager/mod.rs): AudioManager::new
   spawns the wrapper thread, which sets the stream up and polls the quit
   signal channel; the manager pushes commands, the stream's callback drains
   them; the manager is dropped *)

\* the capacity of the quit signal channel: flume::bounded(1)
QuitCapacity == 1

\* a slip: a send that waits for the receiver to take the message
Send_Rendezvous(queue, capacity, connected, x) ==
    IF ~connected THEN [queue |-> queue, result |-> "Err"]
    ELSE [queue |-> queue, result |-> "Blocked"]

\* Sender::send of a bounded channel: an error at once when the receiver is gone,
\* the message queued when there is room, and otherwise the sender waits
Send(queue, capacity, connected, x) ==
    IF ~connected THEN [queue |-> queue, result |-> "Err"]
    ELSE IF Len(queue) < capacity THEN [queue |-> Append(queue, x), result |-> "Ok"]
    ELSE [queue |-> queue, result |-> "Blocked"]

\* the wrapper thread runs setup_stream and reports the result; with a stream it
\* goes on to poll, without one it ends and drops quit_signal_receiver
WrapperSetup(ok) ==
    /\ wrapper = "setup"
    /\ setup_result' = Append(setup_result, IF ok THEN "Ok" ELSE "Err")
    /\ wrapper' = IF ok THEN "polling" ELSE "ended"
    /\ device_stream' = IF ok THEN "playing" ELSE device_stream
    /\ quit_receiver' = ok
    /\ UNCHANGED <<manager, quit_signal>>

\* one round of the wrapper thread's loop: try_recv on the quit signal channel; an
\* error (nothing there) means sleep and poll again, a message ends the loop and
\* the thread, which drops the stream and the receiver
WrapperPoll ==
    /\ wrapper = "polling"
    /\ IF quit_signal = <<>>
       THEN UNCHANGED <<wrapper, device_stream, quit_signal, quit_receiver>>
       ELSE /\ quit_signal' = Tail(quit_signal)
            /\ wrapper' = "ended"
            /\ device_stream' = "dropped"
            /\ quit_receiver' = FALSE
    /\ UNCHANGED <<manager, setup_result>>

\* AudioManager::new waits for the setup result: Ok makes the manager, an error is
\* returned and no manager exists
ManagerSetupResult ==
    /\ manager = "constructing"
    /\ setup_result # <<>>
    /\ manager' = IF Head(setup_result) = "Ok" THEN "alive" ELSE "failed"
    /\ setup_result' = Tail(setup_result)
    /\ UNCHANGED <<wrapper, device_stream, quit_signal, quit_receiver>>

\* Drop for AudioManager: quit_signal_sender.send(true).ok()
DropManager ==
    /\ manager = "alive"
    /\ LET sent == Send(quit_signal, QuitCapacity, quit_receiver, TRUE)
       IN  /\ quit_signal' = sent.queue
           /\ manager' = IF sent.result = "Blocked" THEN "blocked" ELSE "dropped"
    /\ UNCHANGED <<wrapper, device_stream, quit_receiver, setup_result>>

\* AudioManager::new with its wrapper thread just spawned, or
\* new_without_audio_thread, whose backend the caller drives
InitThreadSpec ==
    /\ InitInstances
    /\ playables = <<>>
    /\ parameters = <<>>
    /\ InitStreams
    /\ InitHist
    /\ InitTrack
    /\ InitGroups
    /\ InitMetronome
    /\ InitSequence
    /\ InitTwin
    /\ InitQueue
    /\ InitFrame
    /\ \/ InitThread
       \/ /\ manager = "constructing"
          /\ wrapper = "setup"
          /\ device_stream = "none"
          /\ quit_signal = <<>>
          /\ quit_receiver = TRUE
          /\ setup_result = <<>>

\* the backend runs in the stream's callback, or in the caller's hands
BackendRuns == device_stream = "playing" \/ wrapper = "none"

\* a round of the wrapper thread, which touches nothing but its channels and stream
WrapperRound ==
    /\ WrapperPoll
    /\ UNCHANGED <<instVars, streamVars, histVars, trackVars, groupVars, metronomeVars,
                   sequenceVars, queueVars, twinVars, frameVars>>

NextThread ==
    \/ /\ \E ok \in BOOLEAN : WrapperSetup(ok)
       /\ UNCHANGED <<instVars, streamVars, histVars, trackVars, groupVars, metronomeVars,
                      sequenceVars, queueVars, twinVars, frameVars>>
    \/ WrapperRound
    \/ /\ ManagerSetupResult
       /\ UNCHANGED <<instVars, streamVars, histVars, trackVars, groupVars, metronomeVars,
                      sequenceVars, queueVars, twinVars, frameVars>>
    \/ /\ DropManager
       /\ UNCHANGED <<instVars, streamVars, histVars, trackVars, groupVars, metronomeVars,
                      sequenceVars, queueVars, twinVars, frameVars>>
    \/ /\ manager = "alive"
       /\ nextCommandId < MaxCommands
       /\ \E producer \in Producers : Push(producer)
       /\ UNCHANGED <<instVars, streamVars, histVars, restButQueue>>
    \/ /\ BackendRuns
       /\ DrainBegin
       /\ UNCHANGED <<instVars, streamVars, histVars, restButQueue>>
    \/ /\ BackendRuns
       /\ DrainStep
       /\ UNCHANGED <<instVars, streamVars, histVars, restButQueue>>

\* the wrapper thread is a thread of its own and keeps being scheduled
SpecThread == InitThreadSpec /\ [][NextThread]_vars /\ WF_vars(WrapperRound)

\* C23: the drop of the manager never waits in its send, with or without a wrapper
\* thread to receive; and when there is a wrapper thread, after the drop it
\* eventually has taken the quit signal, left its loop and dropped the stream.
C23_DropQuitsWrapper ==
    /\ [](manager # "blocked")
    /\ (manager = "dropped" /\ wrapper # "none")
            ~> (wrapper = "ended" /\ device_stream = "dropped" /\ quit_signal = <<>>)

\* the manager was dropped after the callback had received commands, and the
\* wrapper thread has taken the quit signal and dropped the stream
C23_Witness ==
    /\ manager = "dropped"
    /\ wrapper = "ended"
    /\ device_stream = "dropped"
    /\ quit_signal = <<>>
    /\ hReceived # <<>>

----------------------------------------------------------------------------
(* The instance commands pause, resume and stop, checked on the steps of SpecFade *)

\* the instance with the id before and after the step
Before(id) == instances[IndexOf(instances, id)]
After(id) == instances'[IndexOf(instances', id)]

\* the fade volume is on its way to the target: at it when there is no tween,
\* else at the start of a tween from its value to the target
FadesTo(old, new, target, fade_tween) ==
    IF IsSome(fade_tween)
    THEN /\ new.value = old.value
         /\ IsSome(new.tween)
         /\ Unwrap(new.tween).target = target
         /\ Unwrap(new.tween).start = old.value
         /\ Unwrap(new.tween).duration = Unwrap(fade_tween)
         /\ Unwrap(new.tween).time = 0
    ELSE new = [value |-> target, tween |-> None]

\* C24: a resume of an instance that is Paused(p) or Pausing(p) makes it Playing,
\* at p when rewind_to_pause_position is set and where it was when not, with its
\* fade volume going to 1; a resume of an instance in any other state, and of
\* every other instance, changes nothing.
C24_ResumeOnlyFromPause ==
    [][\A id \in InstanceIds, t \in FadeTweens, r \in BOOLEAN :
            ResumeInstance(id, t, r) =>
                /\ Ids(instances') = Ids(instances)
                /\ \A other \in Ids(instances) \ {id} : After(other) = Before(other)
                /\ id \in Ids(instances) =>
                    IF Before(id).state.tag \in {"Paused", "Pausing"}
                    THEN /\ After(id).state = Playing
                         /\ After(id).position =
                                IF r THEN Before(id).state.pos ELSE Before(id).position
                         /\ FadesTo(Before(id).fade_volume, After(id).fade_volume, FadeOne, t)
                         /\ \A f \in DOMAIN Before(id) \ {"state", "position", "fade_volume"} :
                                After(id)[f] = Before(id)[f]
                    ELSE After(id) = Before(id)]_vars

\* an instance that was paused at full silence one frame into its sound has just
\* been resumed with a fade
C24_Witness ==
    \E i \in DOMAIN instances :
        /\ instances[i].state = Playing
        /\ IsSome(instances[i].fade_volume.tween)
        /\ Unwrap(instances[i].fade_volume.tween).target = FadeOne
        /\ Unwrap(instances[i].fade_volume.tween).start = 0
        /\ Unwrap(instances[i].fade_volume.tween).time = 0
        /\ instances[i].position = Dt

\* C25: a pause with a fade tween makes the instance Pausing(p) and starts its fade
\* volume toward 0, a pause without one makes it Paused(p) and sets the fade volume
\* to 0; p is the position the instance has when the command is applied, and the
\* pause changes neither the position nor any other instance.
C25_PauseRecordsPosition ==
    [][\A id \in InstanceIds, t \in FadeTweens :
            (PauseInstance(id, t) /\ id \in Ids(instances)) =>
                /\ Ids(instances') = Ids(instances)
                /\ \A other \in Ids(instances) \ {id} : After(other) = Before(other)
                /\ After(id).state = IF IsSome(t) THEN Pausing(Before(id).position)
                                                  ELSE Paused(Before(id).position)
                /\ FadesTo(Before(id).fade_volume, After(id).fade_volume, 0, t)
                /\ \A f \in DOMAIN Before(id) \ {"state", "fade_volume"} :
                        After(id)[f] = Before(id)[f]]_vars

\* an instance two frames into its sound has just been paused with a fade
C25_Witness ==
    \E i \in DOMAIN instances :
        /\ instances[i].state = Pausing(2 * Dt)
        /\ instances[i].position = 2 * Dt
        /\ IsSome(instances[i].fade_volume.tween)
        /\ Unwrap(instances[i].fade_volume.tween).target = 0
        /\ Unwrap(instances[i].fade_volume.tween).start = FadeOne
        /\ Unwrap(instances[i].fade_volume.tween).time = 0

----------------------------------------------------------------------------
(* SpecMix: instances that play once or loop, paused, resumed and stopped, and
   the instances whose sample each process call adds to the mixer *)

\* play once from the start, or loop to the start or to the end of the sound,
\* from the start or from the end
MixSettings ==
    {OneShotSettings(0, FALSE)}
        \cup {LoopSettings(loop_start, start_position, 1) :
                loop_start \in {0, MaxSamples * Dt}, start_position \in {0, MaxSamples * Dt}}

NextMix ==
    \/ /\ \E settings \in MixSettings : Play(1, settings, NoDraw)
       /\ hMixed' = {}
       /\ UNCHANGED <<restVars, streamVars, hAge, hSince, hPending, hEvicted>>
    \/ /\ \E id \in InstanceIds, t \in Tweens : PauseInstance(id, t)
       /\ hMixed' = {}
       /\ UNCHANGED <<restVars, streamVars, hAge, hSince, hPending, hEvicted>>
    \/ /\ \E id \in InstanceIds, t \in Tweens, r \in BOOLEAN : ResumeInstance(id, t, r)
       /\ hMixed' = {}
       /\ UNCHANGED <<restVars, streamVars, hAge, hSince, hPending, hEvicted>>
    \/ /\ \E id \in InstanceIds, t \in Tweens : StopInstance(id, t)
       /\ hMixed' = {}
       /\ UNCHANGED <<restVars, streamVars, hAge, hSince, hPending, hEvicted>>
    \/ /\ PositionsBounded
       /\ Process
       /\ hMixed' = Contributors
       /\ UNCHANGED <<restVars, streamVars, hAge, hSince, hPending, hEvicted>>

SpecMix == InitLoop /\ [][NextMix]_vars

\* C26: in a process call an instance adds a sample to the mixer if and only if it
\* is Playing, Pausing or Stopping when the call is made; a Paused instance keeps
\* its position through the call.
C26_PlayingStatesContribute ==
    [][Process =>
        /\ \A i \in DOMAIN instances :
                (instances[i].id \in hMixed') <=> playing(instances[i])
        /\ \A id \in Ids(instances) \cap Ids(instances') :
                Before(id).state.tag = "Paused" => After(id).position = Before(id).position
      ]_vars

----------------------------------------------------------------------------
(* SpecStop: the instance of SpecFade under the same commands, a frame being the
   commands drained since the last process call and then that call; hPending
   holds the instances stopped without a fade tween in the frame, hMixed those
   whose sample the process call added *)

NextStop ==
    \/ /\ instances = <<>>
       /\ nextInstanceId < MaxInstanceIds
       /\ Play(1, DefaultSettings, NoDraw)
       /\ hMixed' = {}
       /\ UNCHANGED <<restVars, streamVars, hAge, hSince, hPending, hEvicted>>
    \/ /\ \E id \in InstanceIds, t \in FadeTweens : PauseInstance(id, t)
       /\ hMixed' = {}
       /\ UNCHANGED <<restVars, streamVars, hAge, hSince, hPending, hEvicted>>
    \/ /\ \E id \in InstanceIds, t \in FadeTweens, r \in BOOLEAN : ResumeInstance(id, t, r)
       /\ hMixed' = {}
       /\ UNCHANGED <<restVars, streamVars, hAge, hSince, hPending, hEvicted>>
    \/ /\ \E id \in InstanceIds, t \in FadeTweens :
            /\ StopInstance(id, t)
            /\ hPending' = IF t = None /\ id \in Ids(instances)
                           THEN hPending \cup {id} ELSE hPending
       /\ hMixed' = {}
       /\ UNCHANGED <<restVars, streamVars, hAge, hSince, hEvicted>>
    \/ /\ PositionsBounded
       /\ Process
       /\ hMixed' = Contributors
       /\ hPending' = {}
       /\ UNCHANGED <<restVars, streamVars, hAge, hSince, hEvicted>>

SpecStop == InitFade /\ [][NextStop]_vars

\* C27: a stop without a fade tween makes the instance Stopped at once, and the
\* process call of the frame in which it was drained adds no sample for the
\* instance and removes it; a stop with a fade tween makes the instance Stopping,
\* and a Stopping instance adds its sample in every process call and stays
\* Stopping until the call in which its fade ends.
C27_StopWithoutFadeIsImmediate ==
    [][ /\ \A id \in Ids(instances), t \in FadeTweens :
                StopInstance(id, t) =>
                    After(id).state = IF IsSome(t) THEN Stopping ELSE Stopped
        /\ Process =>
            /\ \A id \in hPending : id \notin hMixed' /\ id \notin Ids(instances')
            /\ \A id \in Ids(instances) :
                    Before(id).state = Stopping =>
                        /\ id \in hMixed'
                        /\ id \in Ids(instances')
                        /\ After(id).state =
                                IF FadeEnds(Before(id)) \/ ReachesEnd(Before(id))
                                THEN Stopped ELSE Stopping
      ]_vars

----------------------------------------------------------------------------
(* SpecFrames: SpecStop with the instances that an update made Stopped, from the
   process call in which it happened to the next one *)

\* the ids of the instances that are not Stopped and that their update leaves Stopped
StoppedInUpdate(map, params) ==
    {map[i].id : i \in {j \in DOMAIN map :
                            map[j].state # Stopped /\ update(map[j], params).state = Stopped}}

NextFrames ==
    \/ /\ instances = <<>>
       /\ nextInstanceId < MaxInstanceIds
       /\ Play(1, DefaultSettings, NoDraw)
       /\ hMixed' = {}
       /\ UNCHANGED <<restButFrame, frameVars, streamVars, hAge, hSince, hPending, hEvicted>>
    \/ /\ \E id \in InstanceIds, t \in FadeTweens : PauseInstance(id, t)
       /\ hMixed' = {}
       /\ UNCHANGED <<restButFrame, frameVars, streamVars, hAge, hSince, hPending, hEvicted>>
    \/ /\ \E id \in InstanceIds, t \in FadeTweens, r \in BOOLEAN : ResumeInstance(id, t, r)
       /\ hMixed' = {}
       /\ UNCHANGED <<restButFrame, frameVars, streamVars, hAge, hSince, hPending, hEvicted>>
    \/ /\ \E id \in InstanceIds, t \in FadeTweens : StopInstance(id, t)
       /\ hMixed' = {}
       /\ UNCHANGED <<restButFrame, frameVars, streamVars, hAge, hSince, hPending, hEvicted>>
    \/ /\ PositionsBounded
       /\ Process
       /\ hMixed' = Contributors
       /\ hFinished' = StoppedInUpdate(instances, parameters)
       /\ UNCHANGED <<hLast, metronome_ids>>
       /\ UNCHANGED <<restButFrame, streamVars, hAge, hSince, hPending, hEvicted>>

SpecFrames == InitFade /\ [][NextFrames]_vars

\* C28: an instance that an update of frame N's process call makes Stopped is in
\* the set after that call and while the commands of frame N + 1 are drained, and
\* the process call of frame N + 1 adds no sample for it and removes it; every
\* instance that a process call finds finished is gone after the call (the
\* removal list is drained).
C28_StoppedInUpdateRemovedNextFrame ==
    [][ /\ hFinished' \subseteq Ids(instances')
        /\ Process =>
            /\ \A id \in hFinished : id \notin hMixed' /\ id \notin Ids(instances')
            /\ \A i \in DOMAIN instances :
                    finished(instances[i]) => instances[i].id \notin Ids(instances')
      ]_vars

----------------------------------------------------------------------------
(* SpecReverse: instances without a loop start, forward and reversed, at pitch 1
   and 2, started anywhere in the sound and left to play *)

\* the settings of an instance that plays once, in either direction
ReverseSettings(start_position, reverse, pitch) ==
    [OneShotSettings(start_position, reverse) EXCEPT !.pitch = Fixed(pitch)]

NextReverse ==
    \/ /\ \E k \in 0..MaxSamples, reverse \in BOOLEAN, pitch \in {1, 2} :
            Play(1, ReverseSettings(k * Dt, reverse, pitch), NoDraw)
       /\ UNCHANGED <<restVars, streamVars, histVars>>
    \/ /\ Process
       /\ UNCHANGED <<restVars, streamVars, histVars>>

SpecReverse == InitLoop /\ [][NextReverse]_vars

\* C29: a reversed instance played from start position s starts at duration - s;
\* every update of it while it plays lowers its position; without a loop start
\* the update that leaves the position below 0 makes it Stopped, and no update
\* before that one does.
C29_ReverseStopsBelowZero ==
    [][ /\ \A k \in 0..MaxSamples, pitch \in {1, 2} :
                (Play(1, ReverseSettings(k * Dt, TRUE, pitch), NoDraw) /\ Accepted) =>
                    /\ After(nextInstanceId).position = playables[1].duration - k * Dt
                    /\ After(nextInstanceId).state = Playing
        /\ Process =>
            \A id \in Ids(instances) :
                (Before(id).reverse /\ Before(id).state = Playing) =>
                    /\ id \in Ids(instances')
                    /\ After(id).position < Before(id).position
                    /\ After(id).state = IF After(id).position < 0 THEN Stopped ELSE Playing
      ]_vars

\* a reversed instance started at the end of the sound has played down to position
\* 0 and is Playing there, and another has been Stopped by the update that took it
\* below 0
C29_Witness ==
    \E i, j \in DOMAIN instances :
        /\ instances[i].reverse
        /\ instances[i].state = Playing
        /\ instances[i].position = 0
        /\ instances[j].reverse
        /\ instances[j].state = Stopped
        /\ instances[j].position < 0

----------------------------------------------------------------------------
(* has_ancestor on every group set, in the states of SpecGroup *)

\* C30: for every group set and every group id, has_ancestor is true exactly when
\* the group is in the table and is a member of the set or is reached from a
\* member along parent links through groups of the table; for a group that is
\* not in the table it is false, also when the set names the group.
C30_HasAncestorIsReachability ==
    \A set \in SUBSET GroupIds, ancestor \in GroupIds :
        /\ has_ancestor(set, ancestor, groups) <=> ChainTo(set, ancestor)
        /\ ancestor \notin DOMAIN groups => ~has_ancestor(set, ancestor, groups)

\* a PauseGroup of a group that was removed has just run and left the instance
\* Playing, although the group set of its playable names the group; the table
\* holds two other groups, one the parent of the other
C30_Witness ==
    /\ hCommand.kind = "PauseGroup"
    /\ hCommand.id \notin DOMAIN groups
    /\ hCommand.id \in playable_groups[1]
    /\ \E i \in DOMAIN instances : instances[i].state = Playing
    /\ \E a, b \in DOMAIN groups : b \in groups[a]

----------------------------------------------------------------------------
(* SpecCommands: Play, pause, resume and stop on two sounds and one that is not
   loaded, and the setters and seeks for ids that are not in the set (SpecValue and
   SpecSeek run them on the instances of the set) *)

\* a playable that is not in the Playables: playable_mut finds nothing
Unloaded == [Playable(MaxSamples, None) EXCEPT !.loaded = FALSE]

\* what a Play of playable p finds
PlayFinds(p) ==
    [kind |-> "Play", known |-> playables[p].loaded,
     cooling |-> playables[p].loaded /\ cooling_down(playables[p]),
     full |-> Len(instances) >= NumInstances]

\* what a command for the instance id finds
CommandFinds(kind, id) ==
    [kind |-> kind, known |-> id \in Ids(instances), cooling |-> FALSE,
     full |-> Len(instances) >= NumInstances]

InitCommands ==
    /\ InitInstances
    /\ playables = [p \in {1, 2, 3} |->
                        IF p = 1 THEN Playable(MaxSamples, Some(2 * Dt))
                        ELSE IF p = 2 THEN Playable(MaxSamples, None)
                        ELSE Unloaded]
    /\ parameters = <<>>
    /\ InitStreams
    /\ InitRest
    /\ InitHist

NextCommands ==
    \/ /\ \E p \in DOMAIN playables :
            /\ Play(p, DefaultSettings, NoDraw)
            /\ hLast' = PlayFinds(p)
       /\ UNCHANGED <<restButFrame, hFinished, metronome_ids, streamVars, histVars>>
    \/ /\ \E id \in InstanceIds \ Ids(instances), value \in FixedValues :
            /\ SetInstanceVolume(id, value, 0)
            /\ hLast' = CommandFinds("SetInstanceVolume", id)
       /\ UNCHANGED <<restButFrame, hFinished, metronome_ids, streamVars, histVars>>
    \/ /\ \E id \in InstanceIds \ Ids(instances), value \in FixedValues :
            /\ SetInstancePitch(id, value, 0)
            /\ hLast' = CommandFinds("SetInstancePlaybackRate", id)
       /\ UNCHANGED <<restButFrame, hFinished, metronome_ids, streamVars, histVars>>
    \/ /\ \E id \in InstanceIds \ Ids(instances), value \in FixedValues :
            /\ SetInstancePanning(id, value, 0)
            /\ hLast' = CommandFinds("SetInstancePanning", id)
       /\ UNCHANGED <<restButFrame, hFinished, metronome_ids, streamVars, histVars>>
    \/ /\ \E id \in InstanceIds \ Ids(instances), offset \in {-Dt, Dt} :
            /\ SeekInstance(id, offset)
            /\ hLast' = CommandFinds("SeekInstance", id)
       /\ UNCHANGED <<restButFrame, hFinished, metronome_ids, streamVars, histVars>>
    \/ /\ \E id \in InstanceIds \ Ids(instances), k \in 0..MaxSamples :
            /\ SeekInstanceTo(id, k * Dt)
            /\ hLast' = CommandFinds("SeekInstanceTo", id)
       /\ UNCHANGED <<restButFrame, hFinished, metronome_ids, streamVars, histVars>>
    \/ /\ \E id \in InstanceIds, t \in {None} :
            /\ PauseInstance(id, t)
            /\ hLast' = CommandFinds("PauseInstance", id)
       /\ UNCHANGED <<restButFrame, hFinished, metronome_ids, streamVars, histVars>>
    \/ /\ \E id \in InstanceIds, t \in {None}, r \in BOOLEAN :
            /\ ResumeInstance(id, t, r)
            /\ hLast' = CommandFinds("ResumeInstance", id)
       /\ UNCHANGED <<restButFrame, hFinished, metronome_ids, streamVars, histVars>>
    \/ /\ \E id \in InstanceIds, t \in {None} :
            /\ StopInstance(id, t)
            /\ hLast' = CommandFinds("StopInstance", id)
       /\ UNCHANGED <<restButFrame, hFinished, metronome_ids, streamVars, histVars>>
    \/ /\ PositionsBounded
       /\ Process
       /\ hLast' = NoInstanceCommand
       /\ UNCHANGED <<restButFrame, hFinished, metronome_ids, streamVars, histVars>>

SpecCommands == InitCommands /\ [][NextCommands]_vars

\* the step leaves the instance set and every playable alone and the audio thread
\* goes on
NoEffect == UNCHANGED <<instances, playables>> /\ ~hung'

\* C31: an instance command that names an id which is not in the set, and a Play
\* whose playable is not loaded, leave the whole instance set and the cooldown of
\* every playable unchanged, and the audio thread goes on with the frame.
C31_UnknownTargetIsIgnored ==
    [][ /\ \A p \in DOMAIN playables :
            (~playables[p].loaded /\ Play(p, DefaultSettings, NoDraw)) => NoEffect
        /\ \A id \in InstanceIds \ Ids(instances) :
            /\ \A value \in FixedValues :
                /\ SetInstanceVolume(id, value, 0) => NoEffect
                /\ SetInstancePitch(id, value, 0) => NoEffect
                /\ SetInstancePanning(id, value, 0) => NoEffect
            /\ \A offset \in {-Dt, Dt} : SeekInstance(id, offset) => NoEffect
            /\ \A k \in 0..MaxSamples : SeekInstanceTo(id, k * Dt) => NoEffect
            /\ \A t \in {None} :
                /\ PauseInstance(id, t) => NoEffect
                /\ StopInstance(id, t) => NoEffect
                /\ \A r \in BOOLEAN : ResumeInstance(id, t, r) => NoEffect ]_vars

\* a Play of the sound that is not loaded has just run on a set that holds an
\* instance, while a playable cools down
C31_Witness ==
    /\ hLast.kind = "Play"
    /\ ~hLast.known
    /\ instances # <<>>
    /\ \E p \in DOMAIN playables : cooling_down(playables[p])

\* C32: a Play that is rejected because its playable cools down has no effect: no
\* instance is inserted, none is evicted even when the set is full, and the
\* cooldown timer of the playable is not restarted.
C32_RejectedPlayHasNoEffect ==
    [][ \A p \in DOMAIN playables :
            (playables[p].loaded /\ cooling_down(playables[p])
                /\ Play(p, DefaultSettings, NoDraw))
            => /\ UNCHANGED <<instances, playables>>
               /\ nextInstanceId \notin Ids(instances') ]_vars

\* a Play has just been rejected for the cooldown, on a full set, after the timer
\* had run down by a frame
C32_Witness ==
    /\ hLast.kind = "Play"
    /\ hLast.cooling
    /\ hLast.full
    /\ Len(instances) = NumInstances
    /\ \E p \in DOMAIN playables :
            /\ cooling_down(playables[p])
            /\ playables[p].cooldown_timer < Unwrap(playables[p].cooldown)

----------------------------------------------------------------------------
(* SpecMetronomeControl: one metronome started, paused, stopped and updated *)

NextMetronomeControl ==
    \/ /\ MetronomeStart
       /\ UNCHANGED <<instVars, streamVars, histVars, restButMetronome>>
    \/ /\ MetronomePause
       /\ UNCHANGED <<instVars, streamVars, histVars, restButMetronome>>
    \/ /\ MetronomeStop
       /\ UNCHANGED <<instVars, streamVars, histVars, restButMetronome>>
    \/ /\ metronome.time < MaxBeats
       /\ hTicks < MaxBeats
       /\ MetronomeUpdate
       /\ UNCHANGED <<instVars, streamVars, histVars, restButMetronome>>

SpecMetronomeControl == InitMetronomeSpec /\ [][NextMetronomeControl]_vars

\* the time and the previous time are the same after the step
SameTime ==
    /\ metronome'.time = metronome.time
    /\ metronome'.previous_time = metronome.previous_time

\* C33: pause clears ticking only and leaves time and previous_time alone; stop
\* also sets both to 0, so that the first update after the next start reports
\* every interval as passed and sends an event for each (while the channel has
\* room); while the metronome is not ticking an update changes neither time nor
\* previous_time and sends no event, and interval_passed is false for every interval.
C33_PauseKeepsStopResets ==
    /\ \A interval \in 1..MaxInterval : ~metronome.ticking => ~interval_passed(metronome, interval)
    /\ [][ /\ MetronomePause => ~metronome'.ticking /\ SameTime
           /\ MetronomeStop =>
                /\ ~metronome'.ticking
                /\ metronome'.time = 0
                /\ metronome'.previous_time = 0
           /\ (MetronomeUpdate /\ ~metronome.ticking) =>
                /\ SameTime
                /\ events' = events
                /\ ~metronome'.ticking
           /\ (MetronomeUpdate /\ metronome.ticking /\ metronome.time = 0) =>
                /\ \A i \in DOMAIN metronome.interval_events_to_emit :
                        interval_passed(metronome', metronome.interval_events_to_emit[i])
                /\ Len(events') = Min(EventCapacity,
                                      Len(events) + Len(metronome.interval_events_to_emit))
                /\ \A k \in (Len(events) + 1)..Len(events') :
                        events'[k] = metronome.interval_events_to_emit[k - Len(events)]
         ]_vars

\* a metronome that had ticked was stopped and started again, and its first update
\* since has sent the t = 0 events a second time
C33_Witness ==
    /\ metronome.ticking
    /\ hTicks >= 3
    /\ metronome.previous_time = 0
    /\ metronome.time > 0
    /\ Len(events) < EventCapacity
    /\ \A i \in DOMAIN metronome.interval_events_to_emit : Emitted(i) >= 2

----------------------------------------------------------------------------
(* SpecSequenceControl: one sequence instance of any accepted list of up to
   MaxControlSteps steps, bound to the metronome or to none, started once, updated
   frame after frame, and muted, unmuted, paused, resumed or stopped at any time,
   while the metronome is started, paused or removed *)

\* longest step list of a controlled sequence
MaxControlSteps == 2

\* output commands a controlled sequence pushes in a run
MaxControlPushes == 3

\* the draws of an update call whose PlayRandom steps take their first choice
FirstChoice == [i \in 1..MaxSteps |-> 0]

\* the steps a controlled sequence is made of
ControlAlphabet == StepAlphabet \cup {WaitBeats(MaxSeqInterval)}

\* the sequences validation accepts
ControlSequences ==
    {raw \in [steps : UNION {[1..n -> ControlAlphabet] : n \in 1..MaxControlSteps},
              loop_point : {None} \cup {Some(k) : k \in 0..(MaxControlSteps - 1)}] :
        raw.loop_point # None => raw.loop_point[1] < Len(raw.steps)}

\* Metronomes::run_command, RemoveMetronome
RemoveMetronome ==
    /\ metronome_ids' = metronome_ids \ {1}
    /\ UNCHANGED <<hFinished, hLast>>

\* what the steps of the sequence leave alone
ControlFrame ==
    UNCHANGED <<instances, playables, parameters, nextInstanceId, streamVars, histVars,
                trackVars, groupVars, queueVars, twinVars, threadVars>>

InitSequenceControl ==
    /\ InitInstances
    /\ playables = <<>>
    /\ parameters = <<>>
    /\ InitStreams
    /\ InitHist
    /\ InitTrack
    /\ InitGroups
    /\ InitQueue
    /\ InitTwin
    /\ InitThread
    /\ InitFrame
    /\ metronome = MetronomeNew(Fixed(1), <<>>)
    /\ events = <<>>
    /\ hTicks = 0
    /\ \E raw \in ControlSequences, metronome_id \in {None, Some(1)} :
            /\ sequence = SequenceInstanceNew(update_instance_ids(raw, 1), metronome_id)
            /\ nextSequenceInstanceId = 1 + Cardinality(IdSteps(raw.steps))
    /\ InitSequenceHist

\* one frame: the metronome, if it is in the map, then the sequence
SequenceControlUpdate ==
    /\ hStarted
    /\ nextSequenceInstanceId <= MaxSequenceIds
    /\ Len(hPushed) < MaxControlPushes
    /\ sequence.wait_timer # None => sequence.wait_timer[1] >= 0
    /\ metronome.time < MaxSeqBeats
    /\ IF 1 \in metronome_ids THEN MetronomeUpdate ELSE UNCHANGED metronomeVars
    /\ SequenceUpdate(metronome', FirstChoice)
    /\ hLast' = [kind |-> "SequenceUpdate", s |-> sequence,
                 full |-> Len(custom_events) >= CustomEventCapacity]
    /\ UNCHANGED <<hUpdates, hFinished, metronome_ids>>
    /\ ControlFrame

NextSequenceControl ==
    \/ /\ ~hStarted
       /\ SequenceStart
       /\ UNCHANGED <<hung, metronomeVars, frameVars>>
       /\ ControlFrame
    \/ SequenceControlUpdate
    \/ /\ MetronomeStart
       /\ UNCHANGED <<hung, sequenceVars, frameVars>>
       /\ ControlFrame
    \/ /\ MetronomePause
       /\ UNCHANGED <<hung, sequenceVars, frameVars>>
       /\ ControlFrame
    \/ /\ RemoveMetronome
       /\ UNCHANGED <<hung, sequenceVars, metronomeVars>>
       /\ ControlFrame
    \/ /\ SequenceMute
       /\ UNCHANGED <<hung, metronomeVars, frameVars>>
       /\ ControlFrame
    \/ /\ SequenceUnmute
       /\ UNCHANGED <<hung, metronomeVars, frameVars>>
       /\ ControlFrame
    \/ /\ SequencePause
       /\ UNCHANGED <<hung, metronomeVars, frameVars>>
       /\ ControlFrame
    \/ /\ SequenceResume
       /\ UNCHANGED <<hung, metronomeVars, frameVars>>
       /\ ControlFrame
    \/ /\ SequenceStop
       /\ UNCHANGED <<hung, metronomeVars, frameVars>>
       /\ ControlFrame

SpecSequenceControl == InitSequenceControl /\ [][NextSequenceControl]_vars

\* the step is an update call of the sequence
UpdateCall == SequenceUpdate(metronome', FirstChoice)

\* the step a sequence instance is positioned on
StepOf(s) == s.sequence.steps[s.position + 1]

\* a sequence instance is Playing and positioned on a step of one of the kinds
OnStep(s, kinds) ==
    /\ s.state = "Playing"
    /\ s.position < Len(s.sequence.steps)
    /\ StepOf(s).kind \in kinds

\* the sequence is bound to a metronome that is in the map
Bound == sequence.metronome # None /\ sequence.metronome[1] \in metronome_ids

\* the update call pushes no output command and no event
Silent ==
    /\ output_command_queue' = <<>>
    /\ hPushed' = hPushed
    /\ custom_events' = custom_events

\* C34: an update call of a Playing sequence positioned on WaitForInterval(i)
\* starts the next step exactly when the bound metronome reports
\* interval_passed(i), and dispatches no further step in that call; with no
\* metronome, a removed one or one that is not ticking it stays on the step.
C34_WaitForIntervalFollowsMetronome ==
    [][ (UpdateCall /\ OnStep(sequence, {"WaitForInterval"})) =>
            LET passed == Bound /\ interval_passed(metronome', StepOf(sequence).value)
                next == start_step(sequence, sequence.position + 1, nextSequenceInstanceId)
            IN  /\ (~Bound \/ ~metronome'.ticking) => ~passed
                /\ Silent
                /\ hDispatched' = 0
                /\ IF passed
                   THEN /\ sequence' = next.s
                        /\ Len(hTrace') \in {2, 3}
                        /\ hTrace'[1] = sequence.position
                        /\ hTrace'[2] = sequence.position + 1
                        /\ Len(hTrace') = 3 => /\ hTrace'[2] = Len(sequence.sequence.steps)
                                               /\ hTrace'[3] = sequence.sequence.loop_point[1]
                   ELSE /\ sequence' = sequence
                        /\ hTrace' = <<sequence.position>> ]_vars

\* the last update call found the sequence on a WaitForInterval step and the
\* interval passed, not at the first beat, and the sequence is on the next step
C34_Witness ==
    /\ hLast.kind = "SequenceUpdate"
    /\ OnStep(hLast.s, {"WaitForInterval"})
    /\ metronome.ticking
    /\ metronome.previous_time > 0
    /\ Len(hTrace) = 2
    /\ sequence.position = hLast.s.position + 1
    /\ sequence.state = "Playing"

\* C35: an update call of a sequence on a Wait given in beats leaves the step
\* and its wait timer as they are when the sequence has no metronome in the map
\* or the metronome is not ticking, and a sequence without a metronome keeps
\* the full wait for ever; on a Wait given in seconds every update call takes dt
\* off the timer, whatever the metronome, and starts the next step when the timer
\* is used up, so that the step lasts duration / dt calls.
C35_BeatsNeedTickingMetronome ==
    /\ (hStarted /\ OnStep(sequence, {"Wait"})) =>
            /\ sequence.wait_timer # None
            /\ sequence.wait_timer[1] >= 0
            /\ sequence.wait_timer[1] <= StepOf(sequence).value
            /\ (StepOf(sequence).value - sequence.wait_timer[1]) % Dt = 0
    /\ (hStarted /\ OnStep(sequence, {"WaitBeats"}) /\ sequence.metronome = None) =>
            sequence.wait_timer = Some(StepOf(sequence).value)
    /\ [][ UpdateCall =>
            /\ (OnStep(sequence, {"WaitBeats"}) /\ (~Bound \/ ~metronome'.ticking)) =>
                    /\ sequence'.position = sequence.position
                    /\ sequence'.wait_timer = sequence.wait_timer
                    /\ sequence.wait_timer[1] > 0 => sequence' = sequence
                    /\ Silent
            /\ OnStep(sequence, {"Wait"}) =>
                    LET time == sequence.wait_timer[1] - Dt
                        waited == [sequence EXCEPT !.wait_timer = Some(time)]
                    IN  /\ Silent
                        /\ sequence' = IF time <= 0
                                       THEN start_step(waited, sequence.position + 1,
                                                       nextSequenceInstanceId).s
                                       ELSE waited ]_vars

\* the last update call found a sequence with a paused metronome on a Wait in
\* beats that had made progress before, and the timer is where it was
C35_Witness ==
    /\ hLast.kind = "SequenceUpdate"
    /\ OnStep(hLast.s, {"WaitBeats"})
    /\ Bound
    /\ ~metronome.ticking
    /\ metronome.time > 0
    /\ sequence = hLast.s
    /\ sequence.wait_timer[1] < StepOf(sequence).value
    /\ sequence.wait_timer[1] > 0

\* the event channel after the sequence has sent the event of its step
Sent == TrySend(custom_events, CustomEventCapacity, StepOf(sequence).value).queue

\* the event channel after the step begins with the messages of queue
BeginsWith(queue) ==
    /\ Len(custom_events') >= Len(queue)
    /\ SubSeq(custom_events', 1, Len(queue)) = queue

\* C37 as stated: an update call of a Playing sequence positioned on
\* EmitCustomEvent(event) sends the event to the event channel if the channel
\* has room, drops it if not, and starts the next step within the same call.
C37_EventSentAndAdvanced ==
    [][ (UpdateCall /\ OnStep(sequence, {"EmitCustomEvent"})) =>
            /\ BeginsWith(Sent)
            /\ hDispatched' >= 1
            /\ Len(hTrace') >= 2
            /\ hTrace'[2] = sequence.position + 1 ]_vars

\* C37: an update call of a Playing sequence positioned on
\* EmitCustomEvent(event) sends the event to the event channel if the sequence is
\* not muted and the channel has room, sends nothing if the sequence is muted,
\* drops the event if the channel is full, and in every case starts the next step
\* within the same call.
C37_EventSentUnlessMuted ==
    [][ (UpdateCall /\ OnStep(sequence, {"EmitCustomEvent"})) =>
            /\ IF sequence.muted THEN custom_events' = custom_events
               ELSE BeginsWith(Sent)
            /\ hDispatched' >= 1
            /\ Len(hTrace') >= 2
            /\ hTrace'[2] = sequence.position + 1 ]_vars

\* the last update call found the sequence, not muted, on an EmitCustomEvent step
\* with the channel full, and the sequence has left the step
C37_Witness ==
    /\ hLast.kind = "SequenceUpdate"
    /\ OnStep(hLast.s, {"EmitCustomEvent"})
    /\ ~hLast.s.muted
    /\ hLast.full
    /\ Len(custom_events) = CustomEventCapacity
    /\ Len(hTrace) >= 2
    /\ ~hung

\* C38: once a sequence instance is Finished it stays Finished under every later
\* pause, resume, mute, unmute and update call, and pushes no further output
\* command or event.
C38_FinishedIsFinal ==
    [][ sequence.state = "Finished" =>
            /\ sequence'.state = "Finished"
            /\ hPushed' = hPushed
            /\ custom_events' = custom_events ]_vars

\* C39: while a sequence instance is Paused an update call leaves position and
\* wait_timer as they are and pushes no output command or event; pause and resume
\* change the state only, so that after resume the sequence goes on from the
\* same step with the same remaining wait.
C39_PausedKeepsPlace ==
    [][ /\ (UpdateCall /\ sequence.state = "Paused") =>
                /\ sequence' = sequence
                /\ Silent
                /\ nextSequenceInstanceId' = nextSequenceInstanceId
        /\ SequencePause => sequence' = [sequence EXCEPT !.state = "Paused"]
        /\ (SequenceResume /\ sequence.state = "Paused") =>
                sequence' = [sequence EXCEPT !.state = "Playing"] ]_vars

\* the last update call found the sequence Paused in the middle of a Wait, and
\* the sequence has been resumed on that step with that remaining wait
C39_Witness ==
    /\ hLast.kind = "SequenceUpdate"
    /\ hLast.s.state = "Paused"
    /\ sequence = [hLast.s EXCEPT !.state = "Playing"]
    /\ OnStep(sequence, {"Wait"})
    /\ sequence.wait_timer[1] > 0
    /\ sequence.wait_timer[1] < StepOf(sequence).value

----------------------------------------------------------------------------
(* SpecMute: two engines with the same sequence, metronome and update calls, the
   sequence of the second one muted from the start *)

InitMute ==
    /\ InitInstances
    /\ playables = [p \in 1..MaxChoices |-> Playable(p, None)]
    /\ parameters = <<>>
    /\ InitStreams
    /\ InitHist
    /\ InitTrack
    /\ InitGroups
    /\ InitQueue
    /\ InitThread
    /\ InitFrame
    /\ InitSequenceHist
    /\ hTicks = 0
    /\ events = <<>>
    /\ metronome = MetronomeNew(Fixed(1), <<MaxSeqInterval>>)
    /\ \E raw \in ControlSequences, metronome_id \in {None, Some(1)} :
        LET minted == Cardinality(IdSteps(raw.steps))
            new == SequenceInstanceNew(update_instance_ids(raw, 1), metronome_id)
        IN  /\ sequence = new
            /\ twin = Some([metronome |-> MetronomeNew(Fixed(1), <<MaxSeqInterval>>),
                            events |-> <<>>,
                            sequence |-> [new EXCEPT !.muted = TRUE],
                            out |-> <<>>,
                            custom_events |-> <<>>,
                            instances |-> <<>>,
                            next |-> 1 + minted,
                            same_process |-> FALSE])
            /\ nextSequenceInstanceId = 1 + minted

\* both engines run a frame with the same draws; the trace is that of the first
MuteFrame ==
    /\ ~hung
    /\ \E rng \in Draws :
        LET one == EngineFrame(EngineOne, nextSequenceInstanceId, rng)
            two == EngineFrame(EngineTwo, twin[1].next, rng)
            r == Run([s |-> sequence, next |-> nextSequenceInstanceId, out |-> <<>>,
                      ev |-> custom_events,
                      trace |-> IF sequence.state = "Playing"
                                THEN <<sequence.position>> ELSE <<>>,
                      n |-> 0, hung |-> FALSE],
                     one.metronome, rng)
        IN  /\ TwinStep(one, two, one.next, two.next)
            /\ hung' = (one.hung \/ two.hung)
            /\ hTrace' = r.trace
            /\ hDispatched' = r.n
    /\ UNCHANGED <<playables, parameters, nextInstanceId, hTicks, hStarted, hUpdates,
                   hControlled, hPushed>>

NextMute ==
    \/ /\ TwinStart
       /\ UNCHANGED <<streamVars, histVars, restButTwin>>
    \/ /\ TwinMetronomeStart
       /\ UNCHANGED <<streamVars, histVars, restButTwin>>
    \/ /\ hStarted
       /\ nextSequenceInstanceId <= MaxSequenceIds
       /\ metronome.time < MaxSeqBeats
       /\ MuteFrame
       /\ UNCHANGED <<streamVars, histVars, restButTwin>>

SpecMute == InitMute /\ [][NextMute]_vars

\* the RunCommand and PlayRandom steps the last update call dispatched: the
\* last index of the trace is where the call left the sequence
CommandSteps ==
    {k \in 1..(Len(hTrace) - 1) :
        /\ hTrace[k] < Len(sequence.sequence.steps)
        /\ sequence.sequence.steps[hTrace[k] + 1].kind \in {"RunCommand", "PlayRandom"}}

\* C36: muting does not change the timing of a sequence: of two instances of
\* the same step list with the same metronome history and update calls, one
\* muted and one not, position, wait_timer and state are equal after every update
\* call; the muted one has pushed no output command and the other one exactly one
\* for every RunCommand and PlayRandom step the call dispatched.
C36_MutingKeepsTiming ==
    /\ twin[1].sequence.muted /\ ~sequence.muted
    /\ sequence.position = twin[1].sequence.position
    /\ sequence.wait_timer = twin[1].sequence.wait_timer
    /\ sequence.state = twin[1].sequence.state
    /\ twin[1].out = <<>>
    /\ ~hung => Len(output_command_queue) = Cardinality(CommandSteps)

\* the last update call of the unmuted sequence has pushed the command of a
\* step and left it on a wait in a later iteration; the muted one is there too
C36_Witness ==
    /\ Len(output_command_queue) = 1
    /\ twin[1].out = <<>>
    /\ sequence.state = "Playing"
    /\ sequence.wait_timer # None
    /\ nextSequenceInstanceId > 1 + Cardinality(IdSteps(sequence.sequence.steps))
    /\ ~hung

----------------------------------------------------------------------------
(* SpecGroupTable: the group table as add_group and remove_group build it *)

\* groups a manager adds in a run
MaxGroupAdds == 4

\* a slip: the counter is read after the increment has wrapped it to 0
GroupIdNew_Wrapped(next) == [id |-> 0, next |-> next + 1]

\* GroupId::new: fetch_add returns the index before the increment
GroupIdNew(next) == [id |-> next, next |-> next + 1]

\* the ids GroupId::new has returned: those of the handles the caller may hold
MintedIds == 0..(nextGroupId - 1)

\* AudioManager::add_group and the AddGroup command it pushes
add_group(parent_groups) ==
    LET minted == GroupIdNew(nextGroupId)
    IN  /\ nextGroupId' = minted.next
        /\ groups' = [g \in DOMAIN groups \cup {minted.id} |->
                        IF g = minted.id THEN parent_groups ELSE groups[g]]
        /\ UNCHANGED <<playable_groups, hCommand>>

\* AudioManager::remove_group and the RemoveGroup command it pushes
remove_group(id) ==
    /\ groups' = [g \in DOMAIN groups \ {id} |-> groups[g]]
    /\ UNCHANGED <<nextGroupId, playable_groups, hCommand>>

InitGroupTable ==
    /\ InitInstances
    /\ playables = <<>>
    /\ parameters = <<>>
    /\ InitStreams
    /\ InitHist
    /\ InitRest

NextGroupTable ==
    \/ /\ nextGroupId < MaxGroupAdds
       /\ \E parent_groups \in SUBSET MintedIds : add_group(parent_groups)
       /\ UNCHANGED <<instVars, streamVars, histVars, restButGroup>>
    \/ /\ \E id \in MintedIds : remove_group(id)
       /\ UNCHANGED <<instVars, streamVars, histVars, restButGroup>>

SpecGroupTable == InitGroupTable /\ [][NextGroupTable]_vars

\* has_ancestor on the set makes calls nested n deep: a chain of n parent links
\* through groups of the table starts in the set
RECURSIVE Nested(_, _)
Nested(set, n) ==
    IF n = 0 THEN TRUE
    ELSE \E id \in set : id \in DOMAIN groups /\ Nested(groups[id], n - 1)

\* the groups reached from a set in n steps along the parent links of the groups
\* that are in the table, removed parents not followed
RECURSIVE Reached(_, _)
Reached(set, n) ==
    IF n = 0 THEN set
    ELSE Reached(set \cup UNION {groups[g] : g \in set \cap DOMAIN groups}, n - 1)

\* C40: the group table that add_group and remove_group build is acyclic: every
\* parent id of a group was minted before the id of the group; so the calls of
\* has_ancestor are nested no deeper than there are ids, for every group set and
\* every target, and has_ancestor does not follow a parent id whose group was
\* removed: it is true exactly for the groups of the table that a chain through
\* groups of the table reaches.
C40_GroupTableIsAcyclic ==
    /\ DOMAIN groups \subseteq MintedIds
    /\ \A g \in DOMAIN groups : \A parent \in groups[g] : parent < g
    /\ ~Nested(MintedIds, nextGroupId + 1)
    /\ \A set \in SUBSET MintedIds, ancestor \in MintedIds :
            has_ancestor(set, ancestor, groups) <=>
                (ancestor \in DOMAIN groups /\ ancestor \in Reached(set, nextGroupId))

\* a group of the table has a parent in the table whose own parent was removed
C40_Witness ==
    \E g \in DOMAIN groups : \E h \in groups[g] :
        /\ h \in DOMAIN groups
        /\ \E r \in groups[h] :
                /\ r \notin DOMAIN groups
                /\ ~has_ancestor({g}, r, groups)
                /\ \E a \in DOMAIN groups : a < r

====
